---- MODULE Spec2Model ----
(***************************************************************************)
(* A model of the contract e-mail pipeline of the AGEI repository:         *)
(* NotificationManager (notification_manager.py), EmailRouter              *)
(* (email_router.py), ContractMatcher (contract_matcher.py),               *)
(* EmailClassifier (email_classifier.py) and the background worker of      *)
(* ContractManagerApp (app.py).                                            *)
(*                                                                         *)
(* Each component has its own specification over the shared variables:     *)
(*   SpecNotify   - sequences of NotificationManager.notify calls          *)
(*   SpecRoute    - sequences of EmailRouter.route_email calls             *)
(*   SpecMatch    - ContractMatcher.match_contract on bounded inputs       *)
(*   SpecClassify - EmailClassifier.classify on bounded inputs             *)
(*   SpecApp      - start/stop calls interleaved with the worker threads   *)
(*   SpecRun      - the worker as run() starts and stops it                *)
(*   SpecQuery    - notify calls interleaved with get_notifications calls  *)
(*   SpecParse    - EmailParser on bounded texts, handed to the classifier *)
(*   SpecRead     - EmailReader.read_emails on bounded mailboxes           *)
(*   SpecAuth     - SecurityManager.authenticate_user over time            *)
(*   SpecStages   - one message dict through the four stages               *)
(*   SpecDb       - ContractDatabase.update_contract on bounded tables     *)
(*   SpecCompose  - parse_email, then match_contract on its result         *)
(***************************************************************************)
EXTENDS Integers, Sequences, FiniteSets, TLC

VARIABLES
    \* ---- NotificationManager ----
    notification_config,    \* self.notification_config
    notification_history,   \* self.notification_history (a list of dicts)
    saved_history,          \* the content of the history_path file
    clock,                  \* datetime.datetime.now(), as a logical time
    created,                \* every notification dict built by notify, in order
    notify_calls,           \* number of notify calls made so far
    last_notify,            \* the last notify call: arguments, result, channels
    last_query,             \* the last get_notifications call and its result
    \* ---- EmailRouter ----
    router_config,          \* self.config / self.department_emails
    smtp_log,               \* every send handed to smtplib, in order
    route_calls,            \* number of route_email calls made so far
    last_route,             \* the last route_email call: input, sends, result
    \* ---- ContractMatcher ----
    contracts,              \* self.contracts (the list loaded from the store)
    match_email,            \* the message dict given to match_contract
    match_result,           \* what match_contract returned
    \* ---- EmailClassifier ----
    models,                 \* category_model, priority_model, department_model
    classify_email,         \* the message dict given to classify
    classify_result,        \* what classify returned
    \* ---- ContractManagerApp ----
    running,                \* self.running
    workers,                \* the threads started on _process_emails
    unseen,                 \* the message ids the mail server holds as unseen
    cycles,                 \* number of poll cycles begun so far
    app_pc,                 \* where run() is: "init", "serving", "stopped"
    \* ---- EmailParser ----
    parse_input,            \* what the text given to parse_email holds
    parse_result,           \* what parse_email / the extractors returned
    \* ---- IMAPEmailProvider, EmailReader, AttachmentProcessor ----
    mailbox,                \* the messages of INBOX on the server, in its order
    temp_files,             \* the temporary attachment files that exist
    read_calls,             \* number of read_emails calls made so far
    last_read,              \* the last read_emails call: limit, listing, result
    \* ---- SecurityManager ----
    security_config,        \* max_login_attempts, lockout_duration
    user,                   \* self.users[username] of one active user
    now,                    \* datetime.datetime.now(), in ticks
    auth_log,               \* the authenticate_user calls made, with results
    \* ---- the message dict through the four stages ----
    stage_input,            \* the dict the next stage is called with
    stage_log,              \* the stage calls made: the dict before and after
    \* ---- ContractDatabase ----
    db_contracts,           \* the rows of table contracts, by contract_number
    db_calls,               \* number of update_contract calls made
    last_update             \* the last update_contract call and the row it found

notifyVars == <<notification_config, notification_history, saved_history,
                clock, created, notify_calls, last_notify, last_query>>

routeVars == <<router_config, smtp_log, route_calls, last_route>>

matchVars == <<contracts, match_email, match_result>>

classifyVars == <<models, classify_email, classify_result>>

appVars == <<running, workers, unseen, cycles, app_pc>>

parseVars == <<parse_input, parse_result>>

\* The variables of the components that are not part of the pipeline run.
readVars == <<mailbox, temp_files, read_calls, last_read>>

authVars == <<security_config, user, now, auth_log>>

stageVars == <<stage_input, stage_log>>

dbVars == <<db_contracts, db_calls, last_update>>

otherVars == <<parseVars, readVars, authVars, stageVars, dbVars>>

vars == <<notifyVars, routeVars, matchVars, classifyVars, appVars, otherVars>>

(***************************************************************************)
(* Bounds of the model.                                                    *)
(***************************************************************************)
MaxNotifyCalls == 4
MaxHistoryCfg == 2
MaxRouteCalls == 2
MaxContracts == 2
MaxThreads == 2
MaxCycles == 2
MaxKeywordHits == 9
MaxOccurrences == 2
MaxMessages == 3
MaxLimit == 2
MaxReadCalls == 2
MaxAuthCalls == 4
MaxTime == 3
MaxAttemptsCfg == 2
MaxLockout == 2
MaxDbCalls == 2
MaxQueryCalls == 1

(***************************************************************************)
(* Python helpers.                                                         *)
(***************************************************************************)
\* seq[start:] of a Python list, with seq 1-indexed here. A negative start
\* counts from the end and is clipped at the front; -0 is 0.
PySliceFrom(seq, start) ==
    LET n == Len(seq)
        s0 == IF start < 0 THEN start + n ELSE start
        s == IF s0 < 0 THEN 0 ELSE IF s0 > n THEN n ELSE s0
    IN SubSeq(seq, s + 1, n)

Range(seq) == {seq[i] : i \in 1..Len(seq)}

(***************************************************************************)
(* NotificationManager                                                     *)
(***************************************************************************)
NotifLevels == {"info", "warning", "critical"}
NoDepartment == "None"
NotifDepartments == {NoDepartment, "comercial"}

\* default_config['users'] of _load_config: the levels each user subscribes to
\* and whether an e-mail address / a phone is configured.
UserConfig ==
    [admin |-> [levels |-> {"info", "warning", "error", "critical"},
                email |-> TRUE, phone |-> FALSE],
     comercial |-> [levels |-> {"warning", "error", "critical"},
                    email |-> TRUE, phone |-> FALSE]]

LevelConfigs ==
    { [info |-> TRUE, warning |-> TRUE, critical |-> TRUE],
      [info |-> FALSE, warning |-> TRUE, critical |-> TRUE] }

ChannelConfigs ==
    { [email |-> TRUE, sms |-> FALSE, dashboard |-> TRUE],
      [email |-> TRUE, sms |-> TRUE, dashboard |-> TRUE],
      [email |-> FALSE, sms |-> FALSE, dashboard |-> FALSE] }

NotificationConfigs ==
    [max_history : 0..MaxHistoryCfg,
     notification_levels : LevelConfigs,
     channels : ChannelConfigs]

\* A mutant of LevelEnabled: the configuration of the levels is ignored.
LevelEnabled_Ignored(cfg, level) == TRUE

\* notification_config.get('notification_levels', {}).get(level, True)
LevelEnabled(cfg, level) ==
    IF level \in DOMAIN cfg.notification_levels
    THEN cfg.notification_levels[level]
    ELSE TRUE

\* A mutant of TruncateHistory: the oldest max_history entries are kept.
TruncateHistory_Oldest(history, max_history) ==
    IF Len(history) > max_history
    THEN SubSeq(history, 1, max_history)
    ELSE history

\* if len(history) > max_history: history = history[-max_history:]
TruncateHistory(history, max_history) ==
    IF Len(history) > max_history
    THEN PySliceFrom(history, 0 - max_history)
    ELSE history

\* 'id': len(self.notification_history) + 1
NextNotificationId(history) == Len(history) + 1

\* The recipients _send_email_notification finds: the department's user when
\* subscribed to the level, and the admin for a critical notification.
EmailRecipients(n) ==
    (IF n.department # NoDepartment /\ n.department \in DOMAIN UserConfig
        /\ n.level \in UserConfig[n.department].levels
        /\ UserConfig[n.department].email
     THEN {n.department} ELSE {})
    \cup
    (IF n.level = "critical" /\ UserConfig["admin"].email
     THEN {"admin"} ELSE {})

SmsRecipients(n) ==
    (IF n.department # NoDepartment /\ n.department \in DOMAIN UserConfig
        /\ n.level \in UserConfig[n.department].levels
        /\ UserConfig[n.department].phone
     THEN {n.department} ELSE {})
    \cup
    (IF n.level = "critical" /\ UserConfig["admin"].phone
     THEN {"admin"} ELSE {})

_send_email_notification(n) == EmailRecipients(n) # {}
_send_sms_notification(n) == SmsRecipients(n) # {}
_add_dashboard_notification(n) == TRUE

\* A mutant of ChannelAttempts: a channel that fails ends the dispatch.
ChannelAttempts_StopAtFailure(cfg, n) ==
    IF cfg.channels.email /\ ~_send_email_notification(n)
    THEN <<[channel |-> "email", ok |-> FALSE]>>
    ELSE (IF cfg.channels.email
          THEN <<[channel |-> "email", ok |-> TRUE]>> ELSE <<>>)
         \o (IF cfg.channels.sms
             THEN <<[channel |-> "sms", ok |-> _send_sms_notification(n)]>>
             ELSE <<>>)
         \o (IF cfg.channels.dashboard /\ ~(cfg.channels.sms
                                            /\ ~_send_sms_notification(n))
             THEN <<[channel |-> "dashboard",
                     ok |-> _add_dashboard_notification(n)]>>
             ELSE <<>>)

\* The channels notify attempts, in order, each with its result.
ChannelAttempts(cfg, n) ==
    (IF cfg.channels.email
     THEN <<[channel |-> "email", ok |-> _send_email_notification(n)]>>
     ELSE <<>>)
    \o (IF cfg.channels.sms
        THEN <<[channel |-> "sms", ok |-> _send_sms_notification(n)]>>
        ELSE <<>>)
    \o (IF cfg.channels.dashboard
        THEN <<[channel |-> "dashboard", ok |-> _add_dashboard_notification(n)]>>
        ELSE <<>>)

(***************************************************************************)
(* EmailRouter                                                             *)
(***************************************************************************)
NoMailbox == ""             \* a department without an entry (None) or with ''
AbsentKey == "absent"       \* the message dict has no 'department' key
MessageIds == {"m1", "m2"}

\* The department a message may carry: none, a configured one, one that is in
\* no configuration, or triage itself.
MessageDepartments == {AbsentKey, "comercial", "desconhecido", "triagem"}

NoRoute == [id |-> "none", department |-> AbsentKey, has_sender |-> FALSE,
            forward_ok |-> FALSE, reply_ok |-> FALSE, sends |-> <<>>,
            routed |-> [routing_status |-> "none",
                        routed_to_department |-> "none",
                        routed_to_email |-> ""]]

Mailbox(d) == IF d = "comercial" THEN "comercial@empresa.com"
              ELSE "triagem@empresa.com"

\* department_emails, as a total function: NoMailbox where the dict has no
\* (or an empty) entry.
DepartmentEmailConfigs ==
    { [d \in {"comercial", "triagem"} |->
          IF d \in configured THEN Mailbox(d) ELSE NoMailbox] :
      configured \in SUBSET {"comercial", "triagem"} }

RouterConfigs ==
    [department_emails : DepartmentEmailConfigs,
     send_auto_reply : BOOLEAN,
     cc_to_triagem : BOOLEAN]

RouterIdle ==
    /\ router_config = [department_emails |->
                           [d \in {"comercial", "triagem"} |-> Mailbox(d)],
                        send_auto_reply |-> TRUE, cc_to_triagem |-> TRUE]
    /\ smtp_log = <<>>
    /\ route_calls = 0
    /\ last_route = NoRoute

\* self.department_emails.get(department)
DepartmentEmail(cfg, department) ==
    IF department \in DOMAIN cfg.department_emails
    THEN cfg.department_emails[department]
    ELSE NoMailbox

\* A mutant of ResolveDepartment: no fallback to triage.
ResolveDepartment_NoFallback(cfg, department) ==
    LET d == IF department = AbsentKey THEN "triagem" ELSE department
    IN [department |-> d, email |-> DepartmentEmail(cfg, d)]

\* email.get('department', 'triagem'), then the mailbox of the department
\* or, when it has none, triage and the mailbox of triage.
ResolveDepartment(cfg, department) ==
    LET d == IF department = AbsentKey THEN "triagem" ELSE department
    IN IF DepartmentEmail(cfg, d) # NoMailbox
       THEN [department |-> d, email |-> DepartmentEmail(cfg, d)]
       ELSE [department |-> "triagem",
             email |-> DepartmentEmail(cfg, "triagem")]

\* The recipients of _forward_email: the department and, in copy, triage.
ForwardRecipients(cfg, department, to_email) ==
    {to_email} \cup
    (IF department # "triagem" /\ cfg.cc_to_triagem
        /\ DepartmentEmail(cfg, "triagem") # NoMailbox
     THEN {DepartmentEmail(cfg, "triagem")} ELSE {})

\* config['notification']['send_auto_reply'], read after the forward
\* whatever its result was.
SendsAutoReply(cfg, forwarding_result) == cfg.send_auto_reply

\* A mutant of RoutingStatus: always a success.
RoutingStatus_Always(forwarding_result) == "success"

\* 'success' if forwarding_result else 'error'
RoutingStatus(forwarding_result) ==
    IF forwarding_result THEN "success" ELSE "error"

\* route_email(email). forward_ok and reply_ok are what the transport does
\* with the forward and with the auto-reply; has_sender is whether the
\* message's 'from' holds an address. The result holds the sends handed to
\* the transport and the returned dict's routing fields.
RouteEmail(cfg, id, department, has_sender, forward_ok, reply_ok) ==
    LET r == ResolveDepartment(cfg, department)
    IN IF r.email = NoMailbox
       THEN [sends |-> <<>>,
             routed |-> [routing_status |-> "error",
                         routed_to_department |-> "none",
                         routed_to_email |-> NoMailbox]]
       ELSE LET forward == [kind |-> "forward", id |-> id,
                            to |-> ForwardRecipients(cfg, r.department, r.email),
                            ok |-> forward_ok]
                reply == [kind |-> "auto_reply", id |-> id,
                          to |-> {"sender"}, ok |-> reply_ok]
            IN [sends |-> <<forward>> \o
                          (IF SendsAutoReply(cfg, forward_ok) /\ has_sender
                           THEN <<reply>> ELSE <<>>),
                routed |-> [routing_status |-> RoutingStatus(forward_ok),
                            routed_to_department |-> r.department,
                            routed_to_email |-> r.email]]

InitRoute ==
    /\ router_config \in RouterConfigs
    /\ smtp_log = <<>>
    /\ route_calls = 0
    /\ last_route = NoRoute

\* One call of route_email on a classified message.
RouteCall(id, department, has_sender, forward_ok, reply_ok) ==
    /\ route_calls < MaxRouteCalls
    /\ LET out == RouteEmail(router_config, id, department, has_sender,
                             forward_ok, reply_ok)
       IN /\ smtp_log' = smtp_log \o out.sends
          /\ last_route' = [id |-> id, department |-> department,
                            has_sender |-> has_sender,
                            forward_ok |-> forward_ok, reply_ok |-> reply_ok,
                            sends |-> out.sends, routed |-> out.routed]
    /\ route_calls' = route_calls + 1
    /\ UNCHANGED router_config

(***************************************************************************)
(* ContractMatcher                                                         *)
(*                                                                         *)
(* A string is a sequence of characters. A score is a number of            *)
(* 1/ScoreDen, so that 1.0, 0.9, 0.8, 0.3 and the Jaccard quotients of     *)
(* names of up to six distinct words are exact.                            *)
(***************************************************************************)
ScoreDen == 60 * 100
Score_1_0 == ScoreDen
Score_0_9 == (ScoreDen * 9) \div 10
Score_0_8 == (ScoreDen * 8) \div 10
Score_0_3 == (ScoreDen * 3) \div 10

\* str.lower() on the characters of the model
LowerChar(c) == IF c = "A" THEN "a" ELSE IF c = "B" THEN "b"
                ELSE IF c = "C" THEN "c" ELSE c

Lower(str) == [i \in 1..Len(str) |-> LowerChar(str[i])]

\* str.split(): the maximal runs of characters that are not white space
RECURSIVE SplitFrom(_, _, _)
SplitFrom(str, i, word) ==
    IF i > Len(str)
    THEN IF word = <<>> THEN <<>> ELSE <<word>>
    ELSE IF str[i] = " "
         THEN (IF word = <<>> THEN <<>> ELSE <<word>>) \o SplitFrom(str, i + 1, <<>>)
         ELSE SplitFrom(str, i + 1, Append(word, str[i]))

Split(str) == SplitFrom(str, 1, <<>>)

\* ' '.join(words)
RECURSIVE JoinWords(_)
JoinWords(words) ==
    IF words = <<>> THEN <<>>
    ELSE IF Len(words) = 1 THEN words[1]
    ELSE words[1] \o <<" ">> \o JoinWords(Tail(words))

\* ' '.join(name.lower().split())
NormalizeName(name) == JoinWords(Split(Lower(name)))

\* u in v, for strings
IsSubstring(u, v) ==
    \E i \in 1..(Len(v) + 1) :
        /\ i + Len(u) - 1 <= Len(v)
        /\ SubSeq(v, i, i + Len(u) - 1) = u

_calculate_name_similarity(name1, name2) ==
    LET n1 == NormalizeName(name1)
        n2 == NormalizeName(name2)
    IN IF n1 = n2 THEN Score_1_0
       ELSE IF IsSubstring(n1, n2) \/ IsSubstring(n2, n1) THEN Score_0_9
       ELSE LET tokens1 == Range(Split(n1))
                tokens2 == Range(Split(n2))
            IN IF tokens1 = {} \/ tokens2 = {} THEN 0
               ELSE (Cardinality(tokens1 \cap tokens2) * ScoreDen)
                       \div Cardinality(tokens1 \cup tokens2)

\* contract.copy() with match['match_score'] = score
WithScore(contract, score) ==
    [contract_number |-> contract.contract_number,
     school_name |-> contract.school_name,
     match_score |-> score]

\* matches.sort(key=match_score, reverse=True): a stable sort, the entries
\* of equal score keep their order.
RECURSIVE InsertByScore(_, _)
InsertByScore(sorted, m) ==
    IF sorted = <<>> THEN <<m>>
    ELSE IF Head(sorted).match_score >= m.match_score
         THEN <<Head(sorted)>> \o InsertByScore(Tail(sorted), m)
         ELSE <<m>> \o sorted

RECURSIVE SortByScore(_)
SortByScore(matches) ==
    IF matches = <<>> THEN <<>>
    ELSE InsertByScore(SortByScore(SubSeq(matches, 1, Len(matches) - 1)),
                       matches[Len(matches)])

\* The scored contracts that are kept, in the order of the contract list.
\* scored[i] is [contract, keep, score] for contract i.
IsKept(x) == x.keep

KeptMatches(scored) ==
    LET kept == SelectSeq(scored, IsKept)
    IN [i \in 1..Len(kept) |-> WithScore(kept[i].contract, kept[i].score)]

_match_by_contract_number(cs, contract_numbers) ==
    LET scored == [i \in 1..Len(cs) |->
                     [contract |-> cs[i], score |-> Score_1_0,
                      keep |-> /\ cs[i].contract_number # ""
                               /\ \E k \in 1..Len(contract_numbers) :
                                    contract_numbers[k] = cs[i].contract_number]]
    IN SortByScore(KeptMatches(scored))

\* The first school name of the message, in order, that reaches 0.8 against
\* the contract's school name: its index, or 0 when there is none.
FirstAccepted(school_names, school_name) ==
    LET hits == {k \in 1..Len(school_names) :
                    _calculate_name_similarity(school_names[k], school_name)
                        >= Score_0_8}
    IN IF hits = {} THEN 0 ELSE CHOOSE k \in hits : \A h \in hits : k <= h

_match_by_school_name(cs, school_names) ==
    LET scored == [i \in 1..Len(cs) |->
                     LET k == IF cs[i].school_name = <<>> THEN 0
                              ELSE FirstAccepted(school_names, cs[i].school_name)
                     IN [contract |-> cs[i], keep |-> k # 0,
                         score |-> IF k = 0 THEN 0
                                   ELSE _calculate_name_similarity(
                                            school_names[k], cs[i].school_name)]]
    IN SortByScore(KeptMatches(scored))

TextTopN == 5

\* text is what the message's text gives the text stage: fewer than ten
\* words ("short"), a vectorizer that raises ("raises"), or the cosine
\* similarity of the message with each contract ("sims").
_match_by_text_similarity(cs, text) ==
    IF text.kind # "sims" THEN <<>>
    ELSE LET scored == [i \in 1..Len(cs) |->
                          [contract |-> cs[i], score |-> text.sims[i],
                           keep |-> text.sims[i] >= Score_0_3]]
             sorted == SortByScore(KeptMatches(scored))
         IN SubSeq(sorted, 1, IF Len(sorted) < TextTopN THEN Len(sorted) ELSE TextTopN)

NoMatchMethod == "absent"   \* the result has no 'match_method' key

MatchResult(matched, method) ==
    [matched_contracts |-> matched,
     has_contract_match |-> matched # <<>>,
     match_method |-> method]

\* A mutant of match_contract: the school-name stage is tried first.
match_contract_NameFirst(cs, email) ==
    IF cs = <<>> THEN MatchResult(<<>>, NoMatchMethod)
    ELSE IF email.school_names # <<>>
            /\ _match_by_school_name(cs, email.school_names) # <<>>
    THEN MatchResult(_match_by_school_name(cs, email.school_names), "school_name")
    ELSE IF email.contract_numbers # <<>>
            /\ _match_by_contract_number(cs, email.contract_numbers) # <<>>
    THEN MatchResult(_match_by_contract_number(cs, email.contract_numbers),
                     "contract_number")
    ELSE IF _match_by_text_similarity(cs, email.text) # <<>>
    THEN MatchResult(_match_by_text_similarity(cs, email.text), "text_similarity")
    ELSE MatchResult(<<>>, NoMatchMethod)

\* match_contract(email): the waterfall over the three stages. email holds
\* entities['contract_numbers'], entities['school_names'] and the text.
match_contract(cs, email) ==
    IF cs = <<>> THEN MatchResult(<<>>, NoMatchMethod)
    ELSE IF email.contract_numbers # <<>>
            /\ _match_by_contract_number(cs, email.contract_numbers) # <<>>
    THEN MatchResult(_match_by_contract_number(cs, email.contract_numbers),
                     "contract_number")
    ELSE IF email.school_names # <<>>
            /\ _match_by_school_name(cs, email.school_names) # <<>>
    THEN MatchResult(_match_by_school_name(cs, email.school_names), "school_name")
    ELSE IF _match_by_text_similarity(cs, email.text) # <<>>
    THEN MatchResult(_match_by_text_similarity(cs, email.text), "text_similarity")
    ELSE MatchResult(<<>>, NoMatchMethod)

\* The inputs of the model.
Name_a_b == <<"a", " ", "b">>
Name_A__b == <<"A", " ", " ", "b">>
Name_a == <<"a">>
Name_a_c == <<"a", " ", "c">>
Name_b_a == <<"b", " ", "a">>

StoredNumbers == {"", "12345", "67890"}
StoredNames == {<<>>, Name_a_b, Name_a_c}
StoredContracts == [contract_number : StoredNumbers, school_name : StoredNames]

ContractLists ==
    UNION { [1..n -> StoredContracts] : n \in 0..MaxContracts }

MessageNumberLists ==
    { <<>>, <<"12345">>, <<"67890">>, <<"12345", "67890">>, <<"99999">> }
MessageNameLists ==
    { <<>>, <<Name_A__b>>, <<Name_a>>, <<Name_a_c, Name_b_a>>,
      <<Name_a, Name_a_b>> }

TextInputs(n) ==
    { [kind |-> "short", sims |-> <<>>], [kind |-> "raises", sims |-> <<>>] }
    \cup { [kind |-> "sims", sims |-> f] : f \in [1..n -> {0, Score_0_3}] }

\* match_result before the call
NoMatchCall == [matched_contracts |-> <<>>, has_contract_match |-> FALSE,
                match_method |-> "none"]

MatcherIdle ==
    /\ contracts = <<>>
    /\ match_email = [contract_numbers |-> <<>>, school_names |-> <<>>,
                      text |-> [kind |-> "short", sims |-> <<>>]]
    /\ match_result = NoMatchCall

InitMatch ==
    /\ contracts \in ContractLists
    /\ match_email \in { [contract_numbers |-> ns, school_names |-> ss, text |-> t] :
                           ns \in MessageNumberLists, ss \in MessageNameLists,
                           t \in TextInputs(Len(contracts)) }
    /\ match_result = NoMatchCall

\* One call of match_contract on the message.
MatchCall ==
    /\ match_result = NoMatchCall
    /\ match_result' = match_contract(contracts, match_email)
    /\ UNCHANGED <<contracts, match_email>>

(***************************************************************************)
(* EmailClassifier                                                         *)
(*                                                                         *)
(* A confidence is a number of hundredths: 0.7 is 70.                      *)
(***************************************************************************)
Conf_0_7 == 70
Conf_0_8 == 80
Conf_0_85 == 85
Conf_0_9 == 90

Categories == {"outro", "pagamento", "cancelamento", "renovacao"}

\* self.category_to_department.get(category, 'triagem')
CategoryToDepartment(category) ==
    CASE category \in {"novo_contrato", "renovacao"} -> "comercial"
      [] category \in {"alteracao", "cancelamento"} -> "juridico"
      [] category = "pagamento" -> "financeiro"
      [] category \in {"duvida", "reclamacao"} -> "atendimento"
      [] category = "suporte" -> "suporte_tecnico"
      [] OTHER -> "triagem"

\* 'urgente' in deadline.lower() or 'imediato' in deadline.lower()
IsUrgentDeadline(deadline) == deadline \in {"urgente 30", "imediato"}

Max(a, b) == IF a >= b THEN a ELSE b

\* A mutant of _apply_entity_based_rules: the category rule reads the key
\* 'contract_numbers', which the parser never writes.
_apply_entity_based_rules_PluralKey(entities, c) ==
    LET c1 == IF "contract_numbers" \in DOMAIN entities /\ "value" \in DOMAIN entities
                 /\ (c.ml_category = "outro" \/ c.ml_category_confidence < Conf_0_7)
              THEN [c EXCEPT !.ml_category = "pagamento",
                             !.ml_category_confidence =
                                 Max(c.ml_category_confidence, Conf_0_8)]
              ELSE c
        c2 == IF "deadline" \in DOMAIN entities
                 /\ \E i \in 1..Len(entities["deadline"]) :
                        IsUrgentDeadline(entities["deadline"][i])
              THEN [c1 EXCEPT !.ml_priority = "urgente",
                              !.ml_priority_confidence = Conf_0_9]
              ELSE c1
        c3 == IF c2.ml_category = "pagamento" /\ c2.ml_category_confidence > Conf_0_7
              THEN [c2 EXCEPT !.department = "financeiro",
                              !.department_confidence = Conf_0_9]
              ELSE IF "contract_number" \in DOMAIN entities
                      /\ Len(entities["contract_number"]) > 0
                      /\ c2.ml_category \in {"cancelamento", "alteracao"}
              THEN [c2 EXCEPT !.department = "juridico",
                              !.department_confidence = Conf_0_85]
              ELSE c2
    IN c3

\* _apply_entity_based_rules(email): the rules for the category, then the
\* priority, then the department, each reading what the earlier ones wrote.
_apply_entity_based_rules(entities, c) ==
    LET c1 == IF "contract_number" \in DOMAIN entities /\ "value" \in DOMAIN entities
                 /\ (c.ml_category = "outro" \/ c.ml_category_confidence < Conf_0_7)
              THEN [c EXCEPT !.ml_category = "pagamento",
                             !.ml_category_confidence =
                                 Max(c.ml_category_confidence, Conf_0_8)]
              ELSE c
        c2 == IF "deadline" \in DOMAIN entities
                 /\ \E i \in 1..Len(entities["deadline"]) :
                        IsUrgentDeadline(entities["deadline"][i])
              THEN [c1 EXCEPT !.ml_priority = "urgente",
                              !.ml_priority_confidence = Conf_0_9]
              ELSE c1
        c3 == IF c2.ml_category = "pagamento" /\ c2.ml_category_confidence > Conf_0_7
              THEN [c2 EXCEPT !.department = "financeiro",
                              !.department_confidence = Conf_0_9]
              ELSE IF "contract_number" \in DOMAIN entities
                      /\ Len(entities["contract_number"]) > 0
                      /\ c2.ml_category \in {"cancelamento", "alteracao"}
              THEN [c2 EXCEPT !.department = "juridico",
                              !.department_confidence = Conf_0_85]
              ELSE c2
    IN c3

\* What a model does with a text: it is not loaded ("absent"), its
\* prediction raises ("raises"), or it predicts a label with a probability.
Absent == [kind |-> "absent", label |-> "none", proba |-> 0]
Raises == [kind |-> "raises", label |-> "none", proba |-> 0]
Predicts(label, proba) == [kind |-> "predicts", label |-> label, proba |-> proba]

\* The except branch of classify: the heuristic values, written into the
\* message that was passed in.
ClassifyFallback(email) ==
    [ml_category |-> email.category,
     ml_category_confidence |-> email.category_confidence,
     ml_priority |-> email.priority,
     ml_priority_confidence |-> 0,
     department |-> CategoryToDepartment(email.category),
     department_confidence |-> 0,
     classification_error |-> TRUE]

\* A mutant of classify: each axis has its own except branch, and an axis
\* whose prediction raises is the only one to take the heuristic value.
classify_PerAxis(ms, email) ==
    LET cat == IF ms.category.kind = "predicts"
               THEN [label |-> ms.category.label, conf |-> ms.category.proba]
               ELSE [label |-> email.category, conf |-> email.category_confidence]
        pri == IF ms.priority.kind = "predicts"
               THEN [label |-> ms.priority.label, conf |-> ms.priority.proba]
               ELSE [label |-> email.priority, conf |-> 0]
        dep == IF ms.department.kind = "predicts"
               THEN [label |-> ms.department.label, conf |-> ms.department.proba]
               ELSE [label |-> CategoryToDepartment(cat.label), conf |-> cat.conf]
    IN [ml_category |-> cat.label,
        ml_category_confidence |-> cat.conf,
        ml_priority |-> pri.label,
        ml_priority_confidence |-> pri.conf,
        department |-> dep.label,
        department_confidence |-> dep.conf,
        classification_error |-> FALSE]

\* classify(email) with the three models ms.
classify(ms, email) ==
    IF "raises" \in {ms.category.kind, ms.priority.kind, ms.department.kind}
    THEN ClassifyFallback(email)
    ELSE LET cat == IF ms.category.kind = "predicts"
                    THEN [label |-> ms.category.label, conf |-> ms.category.proba]
                    ELSE [label |-> email.category, conf |-> email.category_confidence]
             pri == IF ms.priority.kind = "predicts"
                    THEN [label |-> ms.priority.label, conf |-> ms.priority.proba]
                    ELSE [label |-> email.priority, conf |-> 0]
             dep == IF ms.department.kind = "predicts"
                    THEN [label |-> ms.department.label, conf |-> ms.department.proba]
                    ELSE [label |-> CategoryToDepartment(cat.label), conf |-> cat.conf]
         IN _apply_entity_based_rules(email.entities,
                [ml_category |-> cat.label,
                 ml_category_confidence |-> cat.conf,
                 ml_priority |-> pri.label,
                 ml_priority_confidence |-> pri.conf,
                 department |-> dep.label,
                 department_confidence |-> dep.conf,
                 classification_error |-> FALSE])

\* The inputs of the model. The entity dict holds a key only for the entity
\* types the parser found (email_parser.py, _extract_entities).
EntityOptions ==
    [contract_number |-> {<<"12345">>},
     value |-> {<<"5.000,00">>},
     deadline |-> {<<"30">>, <<"urgente 30">>}]

EntityDicts ==
    UNION { {e \in [keys -> {<<"12345">>, <<"5.000,00">>, <<"30">>, <<"urgente 30">>}] :
                \A k \in keys : e[k] \in EntityOptions[k]} :
            keys \in SUBSET {"contract_number", "value", "deadline"} }

HeuristicConfidences == {0, 40, 69, 70, 85, 150}
ModelProbabilities == {40, 70, 85}

\* The parser's except branch writes the category 'desconhecido', which
\* the category-to-department table does not hold.
HeuristicCategories == Categories \cup {"desconhecido"}

ClassifierEmails ==
    [entities : EntityDicts,
     category : HeuristicCategories,
     category_confidence : HeuristicConfidences,
     priority : {"normal", "alta"}]

CategoryModels ==
    {Absent, Raises} \cup
    {Predicts(l, p) : l \in Categories, p \in ModelProbabilities}
PriorityModels == {Absent, Raises, Predicts("urgente", 85)}
DepartmentModels == {Absent, Raises, Predicts("comercial", 70)}

NoClassifyCall ==
    [ml_category |-> "none", ml_category_confidence |-> 0,
     ml_priority |-> "none", ml_priority_confidence |-> 0,
     department |-> "none", department_confidence |-> 0,
     classification_error |-> FALSE]

ClassifierIdle ==
    /\ models = [category |-> Absent, priority |-> Absent, department |-> Absent]
    /\ classify_email = [entities |-> <<>>, category |-> "outro",
                         category_confidence |-> 0, priority |-> "normal"]
    /\ classify_result = NoClassifyCall

InitClassify ==
    /\ models \in [category : CategoryModels, priority : PriorityModels,
                   department : DepartmentModels]
    /\ classify_email \in ClassifierEmails
    /\ classify_result = NoClassifyCall

\* One call of classify on the message.
ClassifyCall ==
    /\ classify_result = NoClassifyCall
    /\ classify_result' = classify(models, classify_email)
    /\ UNCHANGED <<models, classify_email>>

(***************************************************************************)
(* ContractManagerApp: start_email_processing, stop_email_processing and   *)
(* the worker threads that run _process_emails.                            *)
(*                                                                         *)
(* A worker is at one of these places of _process_emails:                  *)
(*   "unborn"  - the thread is not started                                 *)
(*   "check"   - at `while self.running`                                   *)
(*   "connect" - at connector.connect()                                    *)
(*   "list"    - at reader.get_unread_emails(max_emails=10)                *)
(*   "process" - in the for loop, before message batch[idx]                *)
(*   "logout"  - at connection.logout()                                    *)
(*   "sleep"   - in time.sleep(check_interval)                             *)
(*   "sleep60" - in time.sleep(60) of the except branch                    *)
(*   "dead"    - the loop has ended                                        *)
(***************************************************************************)
MaxEmails == 10
Threads == 1..MaxThreads
IdOrder == <<"m1", "m2">>      \* the order in which the server lists ids

\* connect is what connector.connect() did in the current cycle, raised
\* whether the cycle has entered the outer except branch, logouts the number
\* of connection.logout() calls of the cycle.
NewWorker == [pc |-> "unborn", conn |-> FALSE, batch |-> <<>>, idx |-> 0,
              attempted |-> <<>>, connect |-> "none", raised |-> FALSE,
              logouts |-> 0]

AppIdle ==
    /\ running = FALSE
    /\ workers = [t \in Threads |-> NewWorker]
    /\ unseen = MessageIds
    /\ cycles = 0
    /\ app_pc = "init"

\* The first limit entries of a list: list[:limit]
Take(list, limit) ==
    SubSeq(list, 1, IF Len(list) < limit THEN Len(list) ELSE limit)

\* The unseen messages, in the order of the server, cut at the limit.
InUnseen(id) == id \in unseen
UnreadBatch(limit) == Take(SelectSeq(IdOrder, InUnseen), limit)

\* start_email_processing()
StartEmailProcessing ==
    /\ ~running
    /\ \E t \in Threads :
         /\ workers[t].pc = "unborn"
         /\ \A u \in Threads : u < t => workers[u].pc # "unborn"
         /\ workers' = [workers EXCEPT ![t].pc = "check"]
    /\ running' = TRUE
    /\ UNCHANGED <<unseen, cycles>>
    /\ UNCHANGED <<notifyVars, routeVars, matchVars, classifyVars, otherVars>>

\* stop_email_processing()
StopEmailProcessing ==
    /\ running
    /\ running' = FALSE
    /\ UNCHANGED <<workers, unseen, cycles>>
    /\ UNCHANGED <<notifyVars, routeVars, matchVars, classifyVars, otherVars>>

\* while self.running:
WorkerCheck(t) ==
    /\ workers[t].pc = "check"
    /\ IF running /\ cycles < MaxCycles
       THEN /\ workers' = [workers EXCEPT ![t].pc = "connect"]
            /\ cycles' = cycles + 1
       ELSE /\ ~running
            /\ workers' = [workers EXCEPT ![t].pc = "dead"]
            /\ cycles' = cycles
    /\ UNCHANGED <<running, unseen, app_pc>>
    /\ UNCHANGED <<notifyVars, routeVars, matchVars, classifyVars, otherVars>>

\* connector.connect(): it reports a success, reports a failure or raises.
WorkerConnect(t, outcome) ==
    /\ workers[t].pc = "connect"
    /\ workers' = [workers EXCEPT
          ![t].pc = CASE outcome = "success" -> "list"
                      [] outcome = "failure" -> "sleep"
                      [] OTHER -> "sleep60",
          ![t].conn = (outcome = "success"),
          ![t].batch = <<>>, ![t].idx = 0, ![t].attempted = <<>>,
          ![t].connect = outcome, ![t].raised = (outcome = "raises"),
          ![t].logouts = 0]
    /\ UNCHANGED <<running, unseen, cycles, app_pc>>
    /\ UNCHANGED <<notifyVars, routeVars, matchVars, classifyVars, otherVars>>

\* reader.get_unread_emails(max_emails=10): it raises, or returns the unseen
\* messages; the server then holds the messages of `marked` as seen.
WorkerList(t, raises, marked) ==
    /\ workers[t].pc = "list"
    /\ IF raises
       THEN /\ marked = {}
            /\ workers' = [workers EXCEPT ![t].pc = "sleep60",
                                          ![t].raised = TRUE]
            /\ unseen' = unseen
       ELSE /\ marked \subseteq Range(UnreadBatch(MaxEmails))
            /\ workers' = [workers EXCEPT
                  ![t].batch = UnreadBatch(MaxEmails), ![t].idx = 1,
                  ![t].pc = IF UnreadBatch(MaxEmails) = <<>>
                            THEN "logout" ELSE "process"]
            /\ unseen' = unseen \ marked
    /\ UNCHANGED <<running, cycles, app_pc>>
    /\ UNCHANGED <<notifyVars, routeVars, matchVars, classifyVars, otherVars>>

\* A mutant of AfterMessage: an exception in a message ends the cycle.
AfterMessage_Abort(outcome, idx, batch) ==
    IF outcome # "routed" THEN [pc |-> "sleep60", idx |-> idx]
    ELSE IF idx < Len(batch) THEN [pc |-> "process", idx |-> idx + 1]
    ELSE [pc |-> "logout", idx |-> idx + 1]

\* The place of the worker after message idx of the batch, whatever became
\* of the message: the except branch of the for loop only logs.
AfterMessage(outcome, idx, batch) ==
    IF idx < Len(batch) THEN [pc |-> "process", idx |-> idx + 1]
    ELSE [pc |-> "logout", idx |-> idx + 1]

\* One iteration of the for loop on message batch[idx]. outcome is where
\* the try block ends: classify raises, find_contract_references raises, or
\* route_email is called ("routed"); the dict route_email returns has no key
\* 'success', so that the iteration then ends in the except branch too.
\* The message carries no 'department' key: route_email takes 'triagem'.
\* transport_ok is whether the SMTP server takes the sends of this message.
WorkerProcess(t, outcome, transport_ok) ==
    /\ workers[t].pc = "process"
    /\ LET w == workers[t]
           id == w.batch[w.idx]
           after == AfterMessage(outcome, w.idx, w.batch)
       IN /\ workers' = [workers EXCEPT
                ![t].pc = after.pc, ![t].idx = after.idx,
                ![t].attempted = Append(w.attempted,
                                        [id |-> id, outcome |-> outcome])]
          /\ IF outcome = "routed"
             THEN LET out == RouteEmail(router_config, id, AbsentKey, TRUE,
                                        transport_ok, transport_ok)
                  IN /\ route_calls < MaxRouteCalls
                     /\ smtp_log' = smtp_log \o out.sends
                     /\ last_route' = [id |-> id, department |-> AbsentKey,
                                       has_sender |-> TRUE,
                                       forward_ok |-> transport_ok,
                                       reply_ok |-> transport_ok,
                                       sends |-> out.sends,
                                       routed |-> out.routed]
                     /\ route_calls' = route_calls + 1
             ELSE /\ transport_ok
                  /\ UNCHANGED <<smtp_log, last_route, route_calls>>
    /\ UNCHANGED router_config
    /\ UNCHANGED <<running, unseen, cycles, app_pc>>
    /\ UNCHANGED <<notifyVars, matchVars, classifyVars, otherVars>>

\* connection.logout(): it returns or raises.
WorkerLogout(t, raises) ==
    /\ workers[t].pc = "logout"
    /\ workers' = [workers EXCEPT
          ![t].pc = IF raises THEN "sleep60" ELSE "sleep",
          ![t].conn = FALSE, ![t].raised = raises,
          ![t].logouts = workers[t].logouts + 1]
    /\ UNCHANGED <<running, unseen, cycles, app_pc>>
    /\ UNCHANGED <<notifyVars, routeVars, matchVars, classifyVars, otherVars>>

\* time.sleep(...) returns.
WorkerWake(t) ==
    /\ workers[t].pc \in {"sleep", "sleep60"}
    /\ workers' = [workers EXCEPT ![t].pc = "check"]
    /\ UNCHANGED <<running, unseen, cycles, app_pc>>
    /\ UNCHANGED <<notifyVars, routeVars, matchVars, classifyVars, otherVars>>

(***************************************************************************)
(* EmailParser                                                             *)
(*                                                                         *)
(* A text is given by what the parser reads in it: the number of keyword   *)
(* occurrences of each category, the urgency keywords it holds, and, for   *)
(* each place where 'contrato ' occurs, the characters that follow. A      *)
(* string is a sequence of one-character strings. Confidences are in       *)
(* hundredths.                                                             *)
(***************************************************************************)
\* self.keywords: the categories in the order of the dict and the length of
\* each keyword list.
KeywordCategories ==
    <<"novo_contrato", "renovacao", "alteracao", "cancelamento", "pagamento",
      "duvida", "reclamacao", "suporte">>

KeywordListLen ==
    [novo_contrato |-> 8, renovacao |-> 9, alteracao |-> 9, cancelamento |-> 9,
     pagamento |-> 10, duvida |-> 8, reclamacao |-> 10, suporte |-> 9]

\* max(scores.items(), key=score): the first category, in dict order, whose
\* score hits/len no other category exceeds. Scores are compared exactly.
MaxCategory(hits) ==
    LET Before(i, j) ==
            hits[KeywordCategories[i]] * KeywordListLen[KeywordCategories[j]]
              >= hits[KeywordCategories[j]] * KeywordListLen[KeywordCategories[i]]
        After(i, j) ==
            hits[KeywordCategories[i]] * KeywordListLen[KeywordCategories[j]]
              > hits[KeywordCategories[j]] * KeywordListLen[KeywordCategories[i]]
        best == CHOOSE i \in 1..Len(KeywordCategories) :
                   /\ \A j \in 1..Len(KeywordCategories) : j > i => Before(i, j)
                   /\ \A j \in 1..Len(KeywordCategories) : j < i => After(i, j)
    IN KeywordCategories[best]

\* _categorize_email: the category of the highest score and that score, or
\* 'outro' with that score when it is under 0.1. The score is cut to
\* hundredths; with lists of 8, 9 and 10 keywords no two different scores
\* fall in the same hundredth and none lies strictly between 0.70 and 0.71.
_categorize_email(hits) ==
    LET category == MaxCategory(hits)
        confidence == (hits[category] * 100) \div KeywordListLen[category]
    IN IF hits[category] * 10 < KeywordListLen[category]
       THEN [category |-> "outro", confidence |-> confidence]
       ELSE [category |-> category, confidence |-> confidence]

\* A mutant of _determine_priority: one urgency keyword on a 'normal' base
\* escalates to 'urgente'.
_determine_priority_Escalates(category, urgency) ==
    LET urgency_count == Cardinality(urgency)
        base_priority == IF category \in {"cancelamento", "reclamacao", "pagamento"}
                         THEN "alta" ELSE "normal"
    IN IF urgency_count >= 3 \/ "urgente" \in urgency THEN "urgente"
       ELSE IF urgency_count >= 1 /\ base_priority = "alta" THEN "urgente"
       ELSE IF base_priority = "alta" THEN "alta"
       ELSE IF urgency_count >= 1 THEN "urgente"
       ELSE base_priority

\* _determine_priority: urgency is the set of urgency keywords the text holds.
_determine_priority(category, urgency) ==
    LET urgency_count == Cardinality(urgency)
        base_priority == IF category \in {"cancelamento", "reclamacao", "pagamento"}
                         THEN "alta" ELSE "normal"
    IN IF urgency_count >= 3 \/ "urgente" \in urgency THEN "urgente"
       ELSE IF urgency_count >= 1 /\ base_priority = "alta" THEN "urgente"
       ELSE IF base_priority = "alta" THEN "alta"
       ELSE IF urgency_count >= 1 THEN "alta"
       ELSE base_priority

\* Character classes of the patterns (re.IGNORECASE).
DigitChars == {"0", "1", "2", "3", "4", "5", "6", "7", "8", "9"}
LetterChars == {"A", "B", "a", "b"}
SeparatorChars == {"-", "/"}
TrimmedChars == {".", ",", ";", ":"}

\* The number of leading characters of s that are in class, cap at most.
LeadingIn(s, class, cap) ==
    LET top == IF Len(s) < cap THEN Len(s) ELSE cap
    IN CHOOSE n \in 0..top :
          /\ \A i \in 1..n : s[i] \in class
          /\ n = top \/ s[n + 1] \notin class

\* The group (\d{4,10}[-/]?[\dA-Z]{0,5}) matched at the start of tail, or
\* the empty string when fewer than four digits stand there.
CaptureContractNumber(tail) ==
    LET d == LeadingIn(tail, DigitChars, 10)
        sep == IF Len(tail) > d /\ tail[d + 1] \in SeparatorChars THEN 1 ELSE 0
        a == LeadingIn(SubSeq(tail, d + sep + 1, Len(tail)),
                       DigitChars \cup LetterChars, 5)
    IN IF d < 4 THEN <<>> ELSE SubSeq(tail, 1, d + sep + a)

\* str.strip()
LeadingSpaces(s) == LeadingIn(s, {" "}, Len(s))
Reverse(s) == [i \in 1..Len(s) |-> s[Len(s) + 1 - i]]
Strip(s) == SubSeq(s, LeadingSpaces(s) + 1, Len(s) - LeadingSpaces(Reverse(s)))

\* re.sub(r'[.,;:]$', '', value)
TrimPunctuation(value) ==
    IF value # <<>> /\ value[Len(value)] \in TrimmedChars
    THEN SubSeq(value, 1, Len(value) - 1)
    ELSE value

\* The matches of one entity type: each captured group is stripped and
\* trimmed, and appended when it is not empty and not yet in the list.
RECURSIVE CollectMatches(_, _)
CollectMatches(tails, matches) ==
    IF tails = <<>> THEN matches
    ELSE LET group == CaptureContractNumber(Head(tails))
             value == TrimPunctuation(Strip(group))
         IN CollectMatches(Tail(tails),
                IF group # <<>> /\ value # <<>> /\ value \notin Range(matches)
                THEN Append(matches, value) ELSE matches)

\* _extract_entities: a key is set only when its list of matches is not empty.
_extract_entities(tails) ==
    LET matches == CollectMatches(tails, <<>>)
    IN IF matches = <<>> THEN <<>>
       ELSE [k \in {"contract_number"} |-> matches]

\* PDFProcessor._extract_contract_numbers: the set of the captured groups;
\* list(set(...)) puts them in an order of its own.
PdfContractNumbers(tails) ==
    {CaptureContractNumber(tails[i]) : i \in 1..Len(tails)} \ {<<>>}

ListsOfSet(S) ==
    {l \in [1..Cardinality(S) -> S] : \A v \in S : \E i \in 1..Cardinality(S) : l[i] = v}

\* The inputs of the model.
HitCounts == {0, 1, MaxKeywordHits}
KeywordHitInputs ==
    {h \in [Range(KeywordCategories) -> HitCounts] :
        Cardinality({c \in Range(KeywordCategories) : h[c] # 0}) <= 2}

UrgencyKeywords == {"urgente", "imediato", "hoje", "vencendo"}

SampleTails ==
    {<<"1", "2", "3", "4", "5">>,
     <<"1", "2", "3", "4", "5", "-">>,
     <<"1", "2", "3", "4", "5", ".">>,
     <<"1", "2", "3">>}

TailLists == UNION {[1..n -> SampleTails] : n \in 0..MaxOccurrences}

NoParse == [category |-> "none", category_confidence |-> 0, priority |-> "none",
            entities |-> <<>>, pdf_contract_numbers |-> <<>>]

ParserIdle ==
    /\ parse_input = [hits |-> [c \in Range(KeywordCategories) |-> 0],
                      urgency |-> {}, tails |-> <<>>]
    /\ parse_result = NoParse

InitParse ==
    /\ parse_input \in [hits : KeywordHitInputs,
                        urgency : SUBSET UrgencyKeywords,
                        tails : TailLists]
    /\ parse_result = NoParse

\* parse_email on the text, and the attachment extractor on the same text.
ParseCall(pdf_list) ==
    /\ parse_result = NoParse
    /\ pdf_list \in ListsOfSet(PdfContractNumbers(parse_input.tails))
    /\ LET c == _categorize_email(parse_input.hits)
       IN parse_result' =
            [category |-> c.category,
             category_confidence |-> c.confidence,
             priority |-> _determine_priority(c.category, parse_input.urgency),
             entities |-> _extract_entities(parse_input.tails),
             pdf_contract_numbers |-> pdf_list]
    /\ UNCHANGED parse_input

\* classify on the message parse_email returned.
ClassifyParsed ==
    /\ parse_result # NoParse
    /\ classify_result = NoClassifyCall
    /\ classify_email' = [entities |-> parse_result.entities,
                          category |-> parse_result.category,
                          category_confidence |-> parse_result.category_confidence,
                          priority |-> parse_result.priority]
    /\ classify_result' = classify(models, classify_email')
    /\ UNCHANGED <<models, parseVars>>

(***************************************************************************)
(* IMAPEmailProvider, AttachmentProcessor and EmailReader                  *)
(*                                                                         *)
(* A text is a sequence of one-character strings. Of the extractors of a   *)
(* text the model keeps the contract numbers found by the pattern          *)
(* n[º°]?\s*[:.]?\s*(\d{4,10}[-/]?[\dA-Z]{0,5}); the texts of the model    *)
(* hold no school name and no date.                                        *)
(***************************************************************************)
ContentType_pdf ==
    <<"a", "p", "p", "l", "i", "c", "a", "t", "i", "o", "n", "/", "p", "d",
      "f">>
ContentType_csv ==
    <<"t", "e", "x", "t", "/", "c", "s", "v">>
ContentType_plain ==
    <<"t", "e", "x", "t", "/", "p", "l", "a", "i", "n">>
ContentType_zip ==
    <<"a", "p", "p", "l", "i", "c", "a", "t", "i", "o", "n", "/", "z", "i",
      "p">>
ContentType_n12345 ==
    <<"a", "p", "p", "l", "i", "c", "a", "t", "i", "o", "n", "/", "n", "1",
      "2", "3", "4", "5">>

Filename_pdf == <<"a", ".", "p", "d", "f">>
Filename_zip == <<"a", ".", "z", "i", "p">>
Filename_bin == <<"a", ".", "b", "i", "n">>

\* The extensions and the content types the five converters claim; of the
\* long content types of DocxProcessor and ExcelProcessor none is an input.
ClaimedExtensions ==
    {<<".", "p", "d", "f">>, <<".", "d", "o", "c", "x">>, <<".", "x", "l", "s">>,
     <<".", "x", "l", "s", "x">>, <<".", "x", "l", "s", "m">>,
     <<".", "c", "s", "v">>, <<".", "t", "x", "t">>, <<".", "h", "t", "m", "l">>,
     <<".", "h", "t", "m">>, <<".", "m", "d">>, <<".", "x", "m", "l">>}

ClaimedContentTypes == {ContentType_pdf, ContentType_csv, ContentType_plain}

\* str.endswith(suffix)
EndsWith(str, suffix) ==
    /\ Len(suffix) <= Len(str)
    /\ SubSeq(str, Len(str) - Len(suffix) + 1, Len(str)) = suffix

\* Whether one of self.processors answers can_process(content_type, filename).
CanProcess(content_type, filename) ==
    \/ content_type \in ClaimedContentTypes
    \/ \E ext \in ClaimedExtensions : EndsWith(Lower(filename), ext)

\* After the 'n' of the pattern: [º°]? \s* [:.]? \s*
SkipNumberPrefix(tail) ==
    LET a == IF tail # <<>> /\ tail[1] \in {"º", "°"} THEN Tail(tail) ELSE tail
        b == SubSeq(a, LeadingIn(a, {" "}, Len(a)) + 1, Len(a))
        c == IF b # <<>> /\ b[1] \in {":", "."} THEN Tail(b) ELSE b
    IN SubSeq(c, LeadingIn(c, {" "}, Len(c)) + 1, Len(c))

\* PDFProcessor._extract_contract_numbers(text), as the set list(set(...))
\* is built from.
_extract_contract_numbers(text) ==
    {CaptureContractNumber(SkipNumberPrefix(SubSeq(text, i + 1, Len(text)))) :
        i \in {j \in 1..Len(text) : text[j] \in {"n", "N"}}} \ {<<>>}

\* EmailReader._extract_information(text)
_extract_information(text) ==
    [contract_numbers |-> _extract_contract_numbers(text)]

\* EmailReader._combine_extracted_info(target, source)
_combine_extracted_info(target, source) ==
    [contract_numbers |-> target.contract_numbers \cup source.contract_numbers]

\* "[Tipo de arquivo não suportado: {content_type}]"
UnsupportedHead ==
    <<"[", "T", "i", "p", "o", " ", "d", "e", " ", "a", "r", "q", "u", "i",
      "v", "o", " ", "n", "ã", "o", " ", "s", "u", "p", "o", "r", "t", "a",
      "d", "o", ":", " ">>

UnsupportedNotice(content_type) == UnsupportedHead \o content_type \o <<"]">>

\* "[Arquivo não encontrado]"
NotFoundNotice ==
    <<"[", "A", "r", "q", "u", "i", "v", "o", " ", "n", "ã", "o", " ", "e",
      "n", "c", "o", "n", "t", "r", "a", "d", "o", "]">>

\* process_attachment(attachment): the result dict. filename and
\* content_type are what the result holds of them, under 'filename' and
\* 'original_content_type' or under 'metadata'; <<>> when it holds neither.
process_attachment(attachment, files) ==
    IF attachment.path \notin files
    THEN [text |-> NotFoundNotice, error |-> TRUE,
          filename |-> <<>>, content_type |-> <<>>]
    ELSE IF CanProcess(attachment.content_type, attachment.filename)
    THEN [text |-> attachment.file_text, error |-> FALSE,
          filename |-> attachment.filename,
          content_type |-> attachment.content_type]
    ELSE [text |-> UnsupportedNotice(attachment.content_type), error |-> TRUE,
          filename |-> attachment.filename,
          content_type |-> attachment.content_type]

\* EmailReader._process_email(email_data, process_attachments=True)
RECURSIVE CombineAll(_, _)
CombineAll(info, processed) ==
    IF processed = <<>> THEN info
    ELSE CombineAll(_combine_extracted_info(info,
                        _extract_information(Head(processed).text)),
                    Tail(processed))

_process_email(email_data, files) ==
    LET processed == [k \in 1..Len(email_data.attachments) |->
                        process_attachment(email_data.attachments[k], files)]
        info == CombineAll(_extract_information(email_data.body), processed)
    IN [id |-> email_data.id,
        body |-> email_data.body,
        attachments |-> email_data.attachments,
        extracted_info |-> info,
        processed_attachments |-> processed,
        relevance |-> IF info.contract_numbers # {} THEN 4 ELSE 0]

\* EmailParser._extract_all_text(email_data): the texts that are joined.
IsNonEmptyText(text) == text # <<>>
_extract_all_text(email_data) ==
    SelectSeq(<<email_data.body>>, IsNonEmptyText)
      \o SelectSeq([k \in 1..Len(email_data.processed_attachments) |->
                       email_data.processed_attachments[k].text],
                   IsNonEmptyText)

\* IMAPEmailProvider.get_unread_emails(limit): the ids search('UNSEEN')
\* returns, cut to the first limit when limit > 0.
IsUnseen(message) == ~message.seen
UnseenMessages(box) == SelectSeq(box, IsUnseen)

get_unread_emails(box, limit) ==
    IF limit > 0 THEN Take(UnseenMessages(box), limit) ELSE UnseenMessages(box)

\* _extract_content: every attachment part is written to a new temporary
\* file (delete=False); call tells the files of one fetch from another's.
FetchMessage(message, call) ==
    [id |-> message.id,
     body |-> message.body,
     attachments |-> [k \in 1..Len(message.parts) |->
                        [filename |-> message.parts[k].filename,
                         content_type |-> message.parts[k].content_type,
                         file_text |-> message.parts[k].file_text,
                         path |-> <<message.id, call, k>>]]]

PathsOf(emails) ==
    UNION {{emails[i].attachments[k].path : k \in 1..Len(emails[i].attachments)} :
              i \in 1..Len(emails)}

\* The inputs of the model.
Body_n1234 ==
    <<"R", "e", "f", ".", " ", "n", " ", "1", "2", "3", "4">>
FileText_n5678 ==
    <<"P", "r", "o", "c", "e", "s", "s", "o", " ", "n", ":", " ", "5", "6",
      "7", "8">>

MessageParts ==
    {[filename |-> Filename_pdf, content_type |-> ContentType_pdf,
      file_text |-> FileText_n5678],
     [filename |-> Filename_zip, content_type |-> ContentType_zip,
      file_text |-> <<>>],
     [filename |-> Filename_bin, content_type |-> ContentType_n12345,
      file_text |-> <<>>]}

ServerIds == <<"m1", "m2", "m3", "m4">>

Mailboxes ==
    UNION {{box \in [1..n -> [id : Range(ServerIds), seen : BOOLEAN,
                              body : {<<>>, Body_n1234},
                              parts : {<<>>} \cup {<<p>> : p \in MessageParts}]] :
               \A i \in 1..n : box[i].id = ServerIds[i]} :
           n \in 0..MaxMessages}

NoRead == [limit |-> 0, connected |-> FALSE, listed |-> <<>>, emails |-> <<>>]

ReaderIdle ==
    /\ mailbox = <<>>
    /\ temp_files = {}
    /\ read_calls = 0
    /\ last_read = NoRead

InitRead ==
    /\ mailbox \in Mailboxes
    /\ temp_files = {}
    /\ read_calls = 0
    /\ last_read = NoRead

\* EmailReader.read_emails(limit): connect, list, process each message and
\* mark it as read, disconnect. mark_ok is whether the server takes the
\* +FLAGS \Seen stores.
ReadEmails(limit, connect_ok, mark_ok) ==
    /\ read_calls < MaxReadCalls
    /\ read_calls' = read_calls + 1
    /\ IF ~connect_ok
       THEN /\ last_read' = [limit |-> limit, connected |-> FALSE,
                              listed |-> <<>>, emails |-> <<>>]
            /\ UNCHANGED <<mailbox, temp_files>>
       ELSE LET listed == get_unread_emails(mailbox, limit)
                emails == [i \in 1..Len(listed) |->
                              FetchMessage(listed[i], read_calls + 1)]
                files == temp_files \cup PathsOf(emails)
                ids == {listed[i].id : i \in 1..Len(listed)}
            IN /\ temp_files' = files
               /\ mailbox' = [i \in 1..Len(mailbox) |->
                                IF mark_ok /\ mailbox[i].id \in ids
                                THEN [mailbox[i] EXCEPT !.seen = TRUE]
                                ELSE mailbox[i]]
               /\ last_read' = [limit |-> limit, connected |-> TRUE,
                                listed |-> [i \in 1..Len(listed) |-> listed[i].id],
                                emails |-> [i \in 1..Len(emails) |->
                                               _process_email(emails[i], files)]]

(***************************************************************************)
(* SecurityManager.authenticate_user                                       *)
(*                                                                         *)
(* One user, present in self.users and active. Time is in ticks; a call    *)
(* reads the clock at one instant.                                         *)
(***************************************************************************)
NoLock == -1                \* locked_until is None

\* create_user: the fields of a new user that authenticate_user reads
NewUser == [login_attempts |-> 0, locked_until |-> NoLock,
            session_token |-> FALSE]

Msg_Locked == "Usuário bloqueado. Tente novamente em N minutos"
Msg_LockedNow == "Usuário bloqueado por N minutos devido a múltiplas tentativas de login"
Msg_WrongPassword == "Senha incorreta"
Msg_Success == "Autenticação bem-sucedida"

\* A mutant of ReachesLimit: the user is locked one failure later.
ReachesLimit_Late(login_attempts, max_attempts) ==
    login_attempts > max_attempts

\* if user['login_attempts'] >= max_attempts:
ReachesLimit(login_attempts, max_attempts) ==
    login_attempts >= max_attempts

\* if locked_until: ... if locked_until_dt > datetime.datetime.now():
IsLocked(u, time) ==
    u.locked_until # NoLock /\ u.locked_until > time

\* authenticate_user(username, password) at the instant time: the user
\* record it leaves and the result it returns. password_ok is whether the
\* hash of the password equals the stored hash.
authenticate_user(config, u, time, password_ok) ==
    IF IsLocked(u, time)
    THEN [user |-> u, success |-> FALSE, message |-> Msg_Locked,
          session_token |-> FALSE]
    ELSE LET unlocked == IF u.locked_until # NoLock
                         THEN [u EXCEPT !.locked_until = NoLock,
                                        !.login_attempts = 0]
                         ELSE u
             attempts == unlocked.login_attempts + 1
         IN IF ~password_ok
            THEN IF ReachesLimit(attempts, config.max_login_attempts)
                 THEN [user |-> [unlocked EXCEPT
                                   !.login_attempts = attempts,
                                   !.locked_until =
                                       time + config.lockout_duration],
                       success |-> FALSE, message |-> Msg_LockedNow,
                       session_token |-> FALSE]
                 ELSE [user |-> [unlocked EXCEPT !.login_attempts = attempts],
                       success |-> FALSE, message |-> Msg_WrongPassword,
                       session_token |-> FALSE]
            ELSE [user |-> [unlocked EXCEPT !.login_attempts = 0,
                                            !.session_token = TRUE],
                  success |-> TRUE, message |-> Msg_Success,
                  session_token |-> TRUE]

SecurityConfigs ==
    [max_login_attempts : 1..MaxAttemptsCfg, lockout_duration : 0..MaxLockout]

AuthIdle ==
    /\ security_config = [max_login_attempts |-> MaxAttemptsCfg,
                          lockout_duration |-> MaxLockout]
    /\ user = NewUser
    /\ now = 0
    /\ auth_log = <<>>

InitAuth ==
    /\ security_config \in SecurityConfigs
    /\ user = NewUser
    /\ now = 0
    /\ auth_log = <<>>

\* One authenticate_user call for the user.
AuthenticateUser(password_ok) ==
    /\ Len(auth_log) < MaxAuthCalls
    /\ LET out == authenticate_user(security_config, user, now, password_ok)
       IN /\ user' = out.user
          /\ auth_log' = Append(auth_log,
                [time |-> now, password_ok |-> password_ok,
                 success |-> out.success, message |-> out.message,
                 session_token |-> out.session_token])
    /\ UNCHANGED <<security_config, now>>

\* Time passes.
Tick ==
    /\ now < MaxTime
    /\ now' = now + 1
    /\ UNCHANGED <<security_config, user, auth_log>>

(***************************************************************************)
(* The message dict through parse_email, classify, match_contract and      *)
(* route_email                                                             *)
(*                                                                         *)
(* A dict is a function from the keys it holds. A stage call gives the     *)
(* dict that was passed in as the call leaves it (input), the value the    *)
(* call returns (returned) and whether the returned value is the very      *)
(* object that was passed in (same_object). raises is whether the try      *)
(* block of the stage raises.                                              *)
(***************************************************************************)
\* d.get(k, default)
DictGet(d, k, default) == IF k \in DOMAIN d THEN d[k] ELSE default

\* d[k] = r[k] for each key k of r
DictUpdate(d, r) ==
    [x \in (DOMAIN d) \cup (DOMAIN r) |-> IF x \in DOMAIN r THEN r[x] ELSE d[x]]

\* email.copy() with the keys of r assigned: the input is left as it was.
ReturnsCopy(d, r) ==
    [input |-> d, returned |-> DictUpdate(d, r), same_object |-> FALSE]

\* The except branches: the keys of r are assigned in the dict passed in,
\* which is returned.
ReturnsInput(d, r) ==
    [input |-> DictUpdate(d, r), returned |-> DictUpdate(d, r),
     same_object |-> TRUE]

\* parse_email(email_data); parsed is what the try block computes.
StageParse(email_data, raises, parsed) ==
    IF raises
    THEN ReturnsInput(email_data,
            [entities |-> <<>>, category |-> "desconhecido",
             category_confidence |-> 0, priority |-> "normal",
             metadata |-> <<>>, parse_error |-> TRUE])
    ELSE ReturnsCopy(email_data,
            [entities |-> parsed.entities, category |-> parsed.category,
             category_confidence |-> parsed.category_confidence,
             priority |-> parsed.priority, metadata |-> <<>>])

\* classify(email), no model loaded.
StageClassify(email, raises) ==
    LET heuristic == [category |-> DictGet(email, "category", "outro"),
                      category_confidence |->
                          DictGet(email, "category_confidence", 0),
                      priority |-> DictGet(email, "priority", "normal"),
                      entities |-> DictGet(email, "entities", <<>>)]
        ruled == classify([category |-> Absent, priority |-> Absent,
                           department |-> Absent], heuristic)
    IN IF raises
       THEN ReturnsInput(email, ClassifyFallback(heuristic))
       ELSE ReturnsCopy(email,
               [k \in (DOMAIN ruled) \ {"classification_error"} |-> ruled[k]])

\* match_contract(email); matched is what the three methods find.
StageMatch(email, raises, matched) ==
    IF raises
    THEN ReturnsInput(email,
            [matched_contracts |-> <<>>, has_contract_match |-> FALSE,
             match_error |-> TRUE])
    ELSE ReturnsCopy(email,
            IF matched = <<>>
            THEN [matched_contracts |-> <<>>, has_contract_match |-> FALSE]
            ELSE MatchResult(matched, "contract_number"))

\* route_email(email) under the configuration cfg.
StageRoute(cfg, email, raises, forward_ok) ==
    IF raises
    THEN ReturnsInput(email,
            [routing_status |-> "error", routing_error |-> TRUE])
    ELSE ReturnsCopy(email,
            RouteEmail(cfg, email["id"],
                       DictGet(email, "department", AbsentKey),
                       TRUE, forward_ok, forward_ok).routed)

StageOrder == <<"parse_email", "classify", "match_contract", "route_email">>

StageInputs ==
    {[id |-> "m1", body_text |-> "texto"],
     [id |-> "m1", body_text |-> "texto", department |-> "comercial"]}

ParsedValues ==
    {[entities |-> <<>>, category |-> "outro", category_confidence |-> 0,
      priority |-> "normal"],
     [entities |-> [contract_number |-> <<"12345">>],
      category |-> "cancelamento", category_confidence |-> Conf_0_8,
      priority |-> "alta"]}

StagesIdle ==
    /\ stage_input = [id |-> "m1", body_text |-> "texto"]
    /\ stage_log = <<>>

InitStages ==
    /\ stage_input \in StageInputs
    /\ stage_log = <<>>

\* The stage whose turn it is.
StageDue ==
    IF Len(stage_log) < Len(StageOrder)
    THEN StageOrder[Len(stage_log) + 1] ELSE "done"

\* The stage whose turn it is, is called with the dict the previous stage
\* returned.
StageCall(out) ==
    /\ Len(stage_log) < Len(StageOrder)
    /\ stage_log' = Append(stage_log,
          [stage |-> StageDue,
           before |-> stage_input,
           after |-> out.input,
           returned |-> out.returned,
           same_object |-> out.same_object])
    /\ stage_input' = out.returned

CallParse(raises, parsed) ==
    /\ StageDue = "parse_email"
    /\ StageCall(StageParse(stage_input, raises, parsed))

CallClassify(raises) ==
    /\ StageDue = "classify"
    /\ StageCall(StageClassify(stage_input, raises))

CallMatch(raises, matched) ==
    /\ StageDue = "match_contract"
    /\ StageCall(StageMatch(stage_input, raises, matched))

CallRoute(raises, forward_ok) ==
    /\ StageDue = "route_email"
    /\ StageCall(StageRoute(router_config, stage_input, raises, forward_ok))

(***************************************************************************)
(* ContractDatabase                                                        *)
(*                                                                         *)
(* Table contracts is a function from the contract numbers it holds to     *)
(* the other columns of the row. The columns a LIKE reads are sequences of *)
(* one-character strings.                                                  *)
(***************************************************************************)
\* The columns update_contract assigns, besides updated_at.
UpdatedColumns ==
    {"school_name", "contract_type", "status", "value", "start_date",
     "end_date", "description"}

\* The columns that hold a sequence of characters in the model.
TextColumns == {"school_name", "description"}

\* contract_data.get(column, '')
SuppliedOrEmpty(contract_data, column) ==
    DictGet(contract_data, column, IF column \in TextColumns THEN <<>> ELSE "")

\* UPDATE contracts SET school_name = ?, ... WHERE id = ?
UpdatedRow(row, contract_data) ==
    [column \in UpdatedColumns |-> SuppliedOrEmpty(contract_data, column)]

\* update_contract(contract_data): the table it leaves and its result.
\* raises is whether a statement of the try block raises before the commit.
update_contract(table, contract_data, raises) ==
    IF raises \/ "contract_number" \notin DOMAIN contract_data
              \/ contract_data["contract_number"] \notin DOMAIN table
    THEN [table |-> table, success |-> FALSE]
    ELSE [table |-> [table EXCEPT ![contract_data["contract_number"]] =
                        UpdatedRow(@, contract_data)],
          success |-> TRUE]

\* value LIKE '%term%': term occurs in value, letters compared without case.
Like(value, term) == IsSubstring(Lower(term), Lower(value))

\* search_contracts(search_term=term): the numbers of the rows selected,
\* without their order.
search_contracts(table, term) ==
    {number \in DOMAIN table :
        \/ term = <<>>
        \/ Like(number, term)
        \/ Like(table[number]["school_name"], term)
        \/ Like(table[number]["description"], term)}

\* The inputs of the model.
ContractNumbers == {<<"1">>, <<"2">>}

StoredRows ==
    [school_name : {Name_a_b, Name_a_c},
     contract_type : {"Limpeza"},
     status : {"Ativo"},
     value : {"7500"},
     start_date : {"2023-02-01"},
     end_date : {"2023-12-31"},
     description : {<<>>, Name_a}]

Tables ==
    UNION {[numbers -> StoredRows] : numbers \in SUBSET ContractNumbers}

NewValues ==
    [school_name |-> Name_b_a, contract_type |-> "Obras", status |-> "Renovado",
     value |-> "8000", start_date |-> "2024-01-01", end_date |-> "2024-12-31",
     description |-> Name_a_c]

SuppliedColumnSets ==
    {{}, {"value", "status"}, {"school_name"}, {"description", "value"},
     UpdatedColumns}

UpdateInputs ==
    {DictUpdate([column \in columns |-> NewValues[column]],
                [contract_number |-> number]) :
        columns \in SuppliedColumnSets, number \in ContractNumbers}

NoUpdate == [contract_data |-> <<>>, found |-> FALSE, stored |-> <<>>,
             success |-> FALSE]

DbIdle ==
    /\ db_contracts = <<>>
    /\ db_calls = 0
    /\ last_update = NoUpdate

InitDb ==
    /\ db_contracts \in Tables
    /\ db_calls = 0
    /\ last_update = NoUpdate

\* One update_contract call.
UpdateContract(contract_data, raises) ==
    /\ db_calls < MaxDbCalls
    /\ db_calls' = db_calls + 1
    /\ LET out == update_contract(db_contracts, contract_data, raises)
           number == contract_data["contract_number"]
       IN /\ db_contracts' = out.table
          /\ last_update' =
                [contract_data |-> contract_data,
                 found |-> number \in DOMAIN db_contracts,
                 stored |-> IF number \in DOMAIN db_contracts
                            THEN db_contracts[number] ELSE <<>>,
                 success |-> out.success]

\* The components outside the pipeline run, before any call.
OthersIdle == ParserIdle /\ ReaderIdle /\ AuthIdle /\ StagesIdle /\ DbIdle

NoCall == [level |-> "none", department |-> NoDepartment, accepted |-> FALSE,
           result |-> FALSE, attempts |-> <<>>, saved |-> FALSE,
           steps |-> <<>>]

NoQuery == [department |-> NoDepartment, level |-> "none", result |-> <<>>,
            calls |-> 0]

InitNotify ==
    /\ notification_config \in NotificationConfigs
    /\ notification_history = <<>>
    /\ saved_history = <<>>
    /\ clock = 0
    /\ created = <<>>
    /\ notify_calls = 0
    /\ last_notify = NoCall
    /\ last_query = NoQuery
    /\ RouterIdle
    /\ MatcherIdle
    /\ ClassifierIdle
    /\ AppIdle
    /\ OthersIdle

\* What an accepted notify call does, in the order of the code: the append
\* (and the truncation), the _save_history call, then the channels.
NotifySteps(attempts) ==
    <<"append", "save">> \o [i \in 1..Len(attempts) |-> attempts[i].channel]

\* notify with a level the configuration disables: returns False at once.
NotifyRejected(level, department) ==
    /\ notify_calls < MaxNotifyCalls
    /\ ~LevelEnabled(notification_config, level)
    /\ notify_calls' = notify_calls + 1
    /\ last_notify' = [level |-> level, department |-> department,
                       accepted |-> FALSE, result |-> FALSE,
                       attempts |-> <<>>, saved |-> FALSE, steps |-> <<>>]
    /\ UNCHANGED <<notification_config, notification_history, saved_history,
                   clock, created, last_query>>
    /\ UNCHANGED <<routeVars, matchVars, classifyVars, appVars, otherVars>>

\* notify with an enabled level: append, truncate, save, then the channels.
\* save_ok is whether _save_history could write the file.
NotifyAccepted(level, department, save_ok) ==
    /\ notify_calls < MaxNotifyCalls
    /\ LevelEnabled(notification_config, level)
    /\ LET n == [id |-> NextNotificationId(notification_history),
                 level |-> level, department |-> department,
                 date |-> clock + 1]
           appended == Append(notification_history, n)
           kept == TruncateHistory(appended, notification_config.max_history)
           attempts == ChannelAttempts(notification_config, n)
       IN /\ notification_history' = kept
          /\ saved_history' = IF save_ok THEN kept ELSE saved_history
          /\ created' = Append(created, n)
          /\ last_notify' = [level |-> level, department |-> department,
                             accepted |-> TRUE,
                             result |-> \A i \in 1..Len(attempts) : attempts[i].ok,
                             attempts |-> attempts, saved |-> save_ok,
                             steps |-> NotifySteps(attempts)]
    /\ clock' = clock + 1
    /\ notify_calls' = notify_calls + 1
    /\ UNCHANGED <<notification_config, last_query>>
    /\ UNCHANGED <<routeVars, matchVars, classifyVars, appVars, otherVars>>

\* filtered.sort(key=date, reverse=True): a stable sort, the entries of
\* equal date keep their order.
RECURSIVE InsertByDate(_, _)
InsertByDate(sorted, n) ==
    IF sorted = <<>> THEN <<n>>
    ELSE IF Head(sorted).date >= n.date
         THEN <<Head(sorted)>> \o InsertByDate(Tail(sorted), n)
         ELSE <<n>> \o sorted

RECURSIVE SortByDate(_)
SortByDate(history) ==
    IF history = <<>> THEN <<>>
    ELSE InsertByDate(SortByDate(SubSeq(history, 1, Len(history) - 1)),
                      history[Len(history)])

\* The list get_notifications sorts: notification_history itself when no
\* filter is given, a new list otherwise. "none" stands for None.
QueryFilter(history, department, level) ==
    LET by_department(n) == department = NoDepartment \/ n.department = department
        by_level(n) == level = "none" \/ n.level = level
    IN SelectSeq(SelectSeq(history, by_department), by_level)

DefaultLimit == 10

\* get_notifications(department, level, limit=10)
GetNotifications(department, level) ==
    /\ last_query.calls < MaxQueryCalls
    /\ LET filtered == QueryFilter(notification_history, department, level)
           same_list == department = NoDepartment /\ level = "none"
       IN /\ notification_history' = IF same_list THEN SortByDate(filtered)
                                     ELSE notification_history
          /\ last_query' = [department |-> department, level |-> level,
                            result |-> Take(SortByDate(filtered), DefaultLimit),
                            calls |-> last_query.calls + 1]
    /\ UNCHANGED <<notification_config, saved_history, clock, created,
                   notify_calls, last_notify>>
    /\ UNCHANGED <<routeVars, matchVars, classifyVars, appVars, otherVars>>

NextNotify ==
    \/ \E l \in NotifLevels, d \in NotifDepartments : NotifyRejected(l, d)
    \/ \E l \in NotifLevels, d \in NotifDepartments, s \in BOOLEAN :
          NotifyAccepted(l, d, s)

SpecNotify == InitNotify /\ [][NextNotify]_vars

NextQuery ==
    \/ NextNotify
    \/ \E d \in NotifDepartments, l \in {"none", "critical"} :
          GetNotifications(d, l)

SpecQuery == InitNotify /\ [][NextQuery]_vars

(***************************************************************************)
(* Calls of EmailRouter.route_email under every router configuration.      *)
(***************************************************************************)
NotifierIdle ==
    /\ notification_config = [max_history |-> MaxHistoryCfg,
                              notification_levels |->
                                  [info |-> TRUE, warning |-> TRUE, critical |-> TRUE],
                              channels |->
                                  [email |-> TRUE, sms |-> FALSE, dashboard |-> TRUE]]
    /\ notification_history = <<>>
    /\ saved_history = <<>>
    /\ clock = 0
    /\ created = <<>>
    /\ notify_calls = 0
    /\ last_notify = NoCall
    /\ last_query = NoQuery

InitRouter ==
    InitRoute /\ NotifierIdle /\ MatcherIdle /\ ClassifierIdle /\ AppIdle
      /\ OthersIdle

NextRoute ==
    \E id \in MessageIds, d \in MessageDepartments,
       has_sender \in BOOLEAN, f \in BOOLEAN, r \in BOOLEAN :
        /\ RouteCall(id, d, has_sender, f, r)
        /\ UNCHANGED <<notifyVars, matchVars, classifyVars, appVars, otherVars>>

SpecRoute == InitRouter /\ [][NextRoute]_vars

(***************************************************************************)
(* match_contract on every contract list and message of the bounds.        *)
(***************************************************************************)
InitMatcher ==
    InitMatch /\ NotifierIdle /\ RouterIdle /\ ClassifierIdle /\ AppIdle
      /\ OthersIdle

NextMatch ==
    MatchCall /\ UNCHANGED <<notifyVars, routeVars, classifyVars, appVars, otherVars>>

SpecMatch == InitMatcher /\ [][NextMatch]_vars

(***************************************************************************)
(* classify on every message and every state of the three models.          *)
(***************************************************************************)
InitClassifier ==
    InitClassify /\ NotifierIdle /\ RouterIdle /\ MatcherIdle /\ AppIdle
      /\ OthersIdle

NextClassify ==
    ClassifyCall
      /\ UNCHANGED <<notifyVars, routeVars, matchVars, appVars, otherVars>>

SpecClassify == InitClassifier /\ [][NextClassify]_vars

(***************************************************************************)
(* The application: the calls that start and stop the processing and the   *)
(* steps of the worker threads.                                            *)
(***************************************************************************)
InitApp ==
    /\ AppIdle
    /\ NotifierIdle /\ RouterIdle /\ MatcherIdle /\ ClassifierIdle
    /\ OthersIdle

\* A step of one of the worker threads.
WorkerStep ==
    \/ \E t \in Threads : WorkerCheck(t)
    \/ \E t \in Threads, o \in {"success", "failure", "raises"} :
          WorkerConnect(t, o)
    \/ \E t \in Threads, r \in BOOLEAN, m \in SUBSET MessageIds :
          WorkerList(t, r, m)
    \/ \E t \in Threads, o \in {"classify_raises", "match_raises", "routed"},
          ok \in BOOLEAN : WorkerProcess(t, o, ok)
    \/ \E t \in Threads, r \in BOOLEAN : WorkerLogout(t, r)
    \/ \E t \in Threads : WorkerWake(t)

NextApp ==
    \/ StartEmailProcessing /\ UNCHANGED app_pc
    \/ StopEmailProcessing /\ UNCHANGED app_pc
    \/ WorkerStep

SpecApp == InitApp /\ [][NextApp]_vars

(***************************************************************************)
(* The application as run() drives it: the processing is started once,     *)
(* before the web application serves, and stopped once, when it ends.      *)
(***************************************************************************)
\* run(): self.start_email_processing()
RunStart ==
    /\ app_pc = "init"
    /\ StartEmailProcessing
    /\ app_pc' = "serving"

\* run(): finally: self.stop_email_processing()
RunStop ==
    /\ app_pc = "serving"
    /\ StopEmailProcessing
    /\ app_pc' = "stopped"

NextRun == RunStart \/ RunStop \/ WorkerStep

SpecRun == InitApp /\ [][NextRun]_vars

(***************************************************************************)
(* parse_email on every text of the bounds, then classify on its result.   *)
(***************************************************************************)
InitParser ==
    /\ InitParse
    /\ NotifierIdle /\ RouterIdle /\ MatcherIdle /\ ClassifierIdle /\ AppIdle
    /\ ReaderIdle /\ AuthIdle /\ StagesIdle /\ DbIdle

NextParse ==
    \/ /\ \E l \in ListsOfSet(PdfContractNumbers(parse_input.tails)) : ParseCall(l)
       /\ UNCHANGED <<notifyVars, routeVars, matchVars, classifyVars, appVars,
                      readVars, authVars, stageVars, dbVars>>
    \/ /\ ClassifyParsed
       /\ UNCHANGED <<notifyVars, routeVars, matchVars, appVars, readVars,
                      authVars, stageVars, dbVars>>

SpecParse == InitParser /\ [][NextParse]_vars

(***************************************************************************)
(* match_contract on the message parse_email returned, against every       *)
(* contract list of the bounds.                                            *)
(***************************************************************************)
\* A text of the parser, a sequence of characters, as the str it is.
RECURSIVE AsString(_)
AsString(chars) ==
    IF chars = <<>> THEN "" ELSE Head(chars) \o AsString(Tail(chars))

\* entities.get(key, []) of the message, its texts as strings.
EntityStrings(entities, key) ==
    LET values == DictGet(entities, key, <<>>)
    IN [i \in 1..Len(values) |-> AsString(values[i])]

\* match_contract on the message parse_email returned: the matcher reads
\* entities.get('contract_numbers') and entities.get('school_names').
MatchParsed(text) ==
    /\ parse_result # NoParse
    /\ match_result = NoMatchCall
    /\ match_email' =
          [contract_numbers |-> EntityStrings(parse_result.entities,
                                              "contract_numbers"),
           school_names |-> DictGet(parse_result.entities, "school_names", <<>>),
           text |-> text]
    /\ match_result' = match_contract(contracts, match_email')
    /\ UNCHANGED <<contracts, parseVars>>

InitCompose ==
    /\ parse_input \in [hits : {[c \in Range(KeywordCategories) |-> 0]},
                        urgency : {{}},
                        tails : TailLists]
    /\ parse_result = NoParse
    /\ contracts \in ContractLists
    /\ match_email = [contract_numbers |-> <<>>, school_names |-> <<>>,
                      text |-> [kind |-> "short", sims |-> <<>>]]
    /\ match_result = NoMatchCall
    /\ NotifierIdle /\ RouterIdle /\ ClassifierIdle /\ AppIdle
    /\ ReaderIdle /\ AuthIdle /\ StagesIdle /\ DbIdle

NextCompose ==
    \/ /\ \E l \in ListsOfSet(PdfContractNumbers(parse_input.tails)) : ParseCall(l)
       /\ UNCHANGED <<notifyVars, routeVars, matchVars, classifyVars, appVars,
                      readVars, authVars, stageVars, dbVars>>
    \/ /\ \E text \in TextInputs(Len(contracts)) : MatchParsed(text)
       /\ UNCHANGED <<notifyVars, routeVars, classifyVars, appVars, readVars,
                      authVars, stageVars, dbVars>>

SpecCompose == InitCompose /\ [][NextCompose]_vars

(***************************************************************************)
(* EmailReader.read_emails on every mailbox of the bounds.                 *)
(***************************************************************************)
InitReader ==
    /\ InitRead
    /\ NotifierIdle /\ RouterIdle /\ MatcherIdle /\ ClassifierIdle /\ AppIdle
    /\ ParserIdle /\ AuthIdle /\ StagesIdle /\ DbIdle

NextRead ==
    /\ \E limit \in 0..MaxLimit, connect_ok \in BOOLEAN, mark_ok \in BOOLEAN :
          ReadEmails(limit, connect_ok, mark_ok)
    /\ UNCHANGED <<notifyVars, routeVars, matchVars, classifyVars, appVars,
                   parseVars, authVars, stageVars, dbVars>>

SpecRead == InitReader /\ [][NextRead]_vars

(***************************************************************************)
(* SecurityManager.authenticate_user called at any times.                  *)
(***************************************************************************)
InitAuthenticator ==
    /\ InitAuth
    /\ NotifierIdle /\ RouterIdle /\ MatcherIdle /\ ClassifierIdle /\ AppIdle
    /\ ParserIdle /\ ReaderIdle /\ StagesIdle /\ DbIdle

NextAuth ==
    /\ \/ \E password_ok \in BOOLEAN : AuthenticateUser(password_ok)
       \/ Tick
    /\ UNCHANGED <<notifyVars, routeVars, matchVars, classifyVars, appVars,
                   parseVars, readVars, stageVars, dbVars>>

SpecAuth == InitAuthenticator /\ [][NextAuth]_vars

(***************************************************************************)
(* One message through the four stages, each of which may raise.           *)
(***************************************************************************)
InitPipeline ==
    /\ InitStages
    /\ NotifierIdle /\ RouterIdle /\ MatcherIdle /\ ClassifierIdle /\ AppIdle
    /\ ParserIdle /\ ReaderIdle /\ AuthIdle /\ DbIdle

NextStages ==
    /\ \/ \E raises \in BOOLEAN, parsed \in ParsedValues :
             CallParse(raises, parsed)
       \/ \E raises \in BOOLEAN : CallClassify(raises)
       \/ \E raises \in BOOLEAN, matched \in {<<>>, <<"c1">>} :
             CallMatch(raises, matched)
       \/ \E raises \in BOOLEAN, forward_ok \in BOOLEAN :
             CallRoute(raises, forward_ok)
    /\ UNCHANGED <<notifyVars, routeVars, matchVars, classifyVars, appVars,
                   parseVars, readVars, authVars, dbVars>>

SpecStages == InitPipeline /\ [][NextStages]_vars

(***************************************************************************)
(* ContractDatabase.update_contract on every table of the bounds.          *)
(***************************************************************************)
InitDatabase ==
    /\ InitDb
    /\ NotifierIdle /\ RouterIdle /\ MatcherIdle /\ ClassifierIdle /\ AppIdle
    /\ ParserIdle /\ ReaderIdle /\ AuthIdle /\ StagesIdle

NextDb ==
    /\ \E contract_data \in UpdateInputs, raises \in BOOLEAN :
          UpdateContract(contract_data, raises)
    /\ UNCHANGED <<notifyVars, routeVars, matchVars, classifyVars, appVars,
                   parseVars, readVars, authVars, stageVars>>

SpecDb == InitDatabase /\ [][NextDb]_vars

(***************************************************************************)
(* Claims about the matcher (SpecMatch).                                   *)
(***************************************************************************)
MatchCalled == match_result.match_method # "none"

\* The contracts whose stored number is one of the message's numbers.
ExactCandidates ==
    {i \in 1..Len(contracts) :
        \E k \in 1..Len(match_email.contract_numbers) :
            match_email.contract_numbers[k] = contracts[i].contract_number}

\* The contracts one of the message's school names reaches 0.8 against.
NameCandidates ==
    {i \in 1..Len(contracts) :
        /\ contracts[i].school_name # <<>>
        /\ \E k \in 1..Len(match_email.school_names) :
             _calculate_name_similarity(match_email.school_names[k],
                                        contracts[i].school_name) >= Score_0_8}

\* C2: when a contract number of the message equals the stored number of a
\* contract, the result holds exactly the contracts with such a number, each
\* with score 1.0, by method 'contract_number', whatever the school names
\* would match.
C2_ExactNumberFirst ==
    (MatchCalled /\ ExactCandidates # {})
    => /\ match_result.has_contract_match
       /\ match_result.match_method = "contract_number"
       /\ Len(match_result.matched_contracts) = Cardinality(ExactCandidates)
       /\ \A j \in 1..Len(match_result.matched_contracts) :
            match_result.matched_contracts[j].match_score = Score_1_0
       /\ Range(match_result.matched_contracts)
            = {WithScore(contracts[i], Score_1_0) : i \in ExactCandidates}

\* An exact number match on one contract while another contract, and only
\* that one, matches the message's school name.
C2_Witness_NumberBeatsName ==
    /\ MatchCalled
    /\ ExactCandidates # {}
    /\ NameCandidates # {}
    /\ NameCandidates \cap ExactCandidates = {}
    /\ match_result.match_method = "contract_number"

(***************************************************************************)
(* Claims about the classifier (SpecClassify).                             *)
(***************************************************************************)
ClassifyCalled == classify_result.ml_category # "none"

\* The per-axis predictions were all made: the rules are applied to them.
RulesReached ==
    "raises" \notin {models.category.kind, models.priority.kind,
                     models.department.kind}

\* The confidence of the category before the rules.
ConfidenceBeforeRules ==
    IF models.category.kind = "predicts" THEN models.category.proba
    ELSE classify_email.category_confidence

HasEntity(key) ==
    /\ key \in DOMAIN classify_email.entities
    /\ Len(classify_email.entities[key]) > 0

\* C10: with a contract number and a value among the entities and a category
\* confidence under 0.7 before the rules, classify returns the category
\* 'pagamento' with a confidence of 0.8 or more.
C10_CategoryOverride ==
    (ClassifyCalled /\ RulesReached
       /\ HasEntity("contract_number") /\ HasEntity("value")
       /\ ConfidenceBeforeRules < Conf_0_7)
    => /\ classify_result.ml_category = "pagamento"
       /\ classify_result.ml_category_confidence >= Conf_0_8

\* The scenario of the specification: heuristic category 'outro' at 0.4, no
\* category model, a contract number and a value.
C10_Witness_OutroOverridden ==
    /\ ClassifyCalled
    /\ models.category.kind = "absent"
    /\ RulesReached
    /\ classify_email.category = "outro"
    /\ classify_email.category_confidence = 40
    /\ HasEntity("contract_number") /\ HasEntity("value")
    /\ classify_result.ml_category = "pagamento"
    /\ classify_result.ml_category_confidence = Conf_0_8

(***************************************************************************)
(* Claims about the router (SpecRoute).                                    *)
(***************************************************************************)
RouteCalled == route_calls > 0

ForwardsOf(sends) == {i \in 1..Len(sends) : sends[i].kind = "forward"}
RepliesOf(sends) == {i \in 1..Len(sends) : sends[i].kind = "auto_reply"}

\* The mailbox the configuration holds for the department the message names.
OwnMailbox ==
    IF last_route.department \in DOMAIN router_config.department_emails
    THEN router_config.department_emails[last_route.department]
    ELSE NoMailbox

TriageMailbox == router_config.department_emails["triagem"]

\* C3: a message whose department has no mailbox is forwarded to the triage
\* mailbox, as department 'triagem', and the status is 'success' when the
\* transport sends the forward; when triage has no mailbox either the status
\* is 'error' and the call hands nothing to the transport.
C3_DepartmentFallback ==
    (RouteCalled /\ last_route.department # AbsentKey /\ OwnMailbox = NoMailbox)
    => IF TriageMailbox # NoMailbox
       THEN /\ Cardinality(ForwardsOf(last_route.sends)) = 1
            /\ \A i \in ForwardsOf(last_route.sends) :
                 /\ TriageMailbox \in last_route.sends[i].to
                 /\ last_route.sends[i].to = {TriageMailbox}
                 /\ last_route.sends[i].ok
                      => last_route.routed.routing_status = "success"
            /\ last_route.routed.routed_to_department = "triagem"
            /\ last_route.routed.routed_to_email = TriageMailbox
       ELSE /\ last_route.routed.routing_status = "error"
            /\ last_route.sends = <<>>

\* A call that fell back to triage and succeeded.
C3_Witness_FallbackSuccess ==
    /\ RouteCalled
    /\ last_route.department = "desconhecido"
    /\ TriageMailbox # NoMailbox
    /\ last_route.routed.routing_status = "success"
    /\ last_route.routed.routed_to_department = "triagem"

\* C5: the status is 'success' exactly when the forward was sent, whatever
\* became of the auto-reply; with auto-reply enabled (and a sender to answer)
\* the auto-reply follows every forward, sent or not.
C5_IndependentSends ==
    RouteCalled =>
      /\ (last_route.routed.routing_status = "success")
           <=> (\E i \in ForwardsOf(last_route.sends) : last_route.sends[i].ok)
      /\ (ForwardsOf(last_route.sends) # {} /\ router_config.send_auto_reply
            /\ last_route.has_sender)
           => Cardinality(RepliesOf(last_route.sends)) = 1
      /\ \A i \in ForwardsOf(last_route.sends) :
           last_route.sends[i].ok = last_route.forward_ok
      /\ \A i \in RepliesOf(last_route.sends) :
           last_route.sends[i].ok = last_route.reply_ok

\* A forward that failed followed by an auto-reply that was sent, and a
\* status that is still 'error'.
C5_Witness_ReplyAfterFailedForward ==
    /\ RouteCalled
    /\ \E i \in ForwardsOf(last_route.sends) : ~last_route.sends[i].ok
    /\ \E i \in RepliesOf(last_route.sends) : last_route.sends[i].ok
    /\ last_route.routed.routing_status = "error"

(***************************************************************************)
(* Claims about the application (SpecRun, SpecApp).                        *)
(***************************************************************************)
\* The forwards of message id that the transport sent.
SuccessfulForwards(id) ==
    {i \in 1..Len(smtp_log) :
        /\ smtp_log[i].kind = "forward"
        /\ smtp_log[i].id = id
        /\ smtp_log[i].ok}

AttemptedIds(w) == [i \in 1..Len(w.attempted) |-> w.attempted[i].id]

\* C4: in a poll cycle the for loop takes the messages of the batch one by
\* one in the order of the batch, each once, and leaves the loop only when
\* every message of the batch was taken, whatever stage of a message raised.
C4_FailureIsolation ==
    \A t \in Threads :
        LET w == workers[t]
        IN /\ Len(w.attempted) <= Len(w.batch)
           /\ AttemptedIds(w) = SubSeq(w.batch, 1, Len(w.attempted))
           /\ w.pc = "process" =>
                 /\ w.idx = Len(w.attempted) + 1
                 /\ w.idx <= Len(w.batch)
           /\ w.pc # "process" => AttemptedIds(w) = w.batch

\* A cycle over a batch of two that ended with logout: the first message
\* raised in classify, the second was taken all the same and routed.
C4_Witness_SecondAfterFailure ==
    \E t \in Threads :
        /\ workers[t].pc = "sleep"
        /\ workers[t].batch = <<"m1", "m2">>
        /\ Len(workers[t].attempted) = 2
        /\ workers[t].attempted[1] = [id |-> "m1", outcome |-> "classify_raises"]
        /\ workers[t].attempted[2] = [id |-> "m2", outcome |-> "routed"]
        /\ \E i \in 1..Len(smtp_log) : smtp_log[i].id = "m2"

\* The threads whose _process_emails loop has started and not ended.
AliveWorkers == {t \in Threads : workers[t].pc \notin {"unborn", "dead"}}

\* C6: whatever the order of the start and stop calls and of the steps of
\* the workers, at most one _process_emails loop is alive, and so at most
\* one connection is open and at most one message is in the for loop.
C6_SingleWorker ==
    /\ Cardinality(AliveWorkers) <= 1
    /\ Cardinality({t \in Threads : workers[t].conn}) <= 1
    /\ Cardinality({t \in Threads : workers[t].pc = "process"}) <= 1

(***************************************************************************)
(* Claims about the notifier (SpecNotify).                                 *)
(***************************************************************************)
IsSuffix(s, t) ==
    /\ Len(s) <= Len(t)
    /\ s = SubSeq(t, Len(t) - Len(s) + 1, Len(t))

\* C7: the history never holds more than max_history entries, and what it
\* holds are the most recently created notifications, in creation order.
C7_HistoryCap ==
    /\ Len(notification_history) <= notification_config.max_history
    /\ IsSuffix(notification_history, created)

\* C8: every notification gets an id greater than the id of every
\* notification created before it, and no two entries of the history share
\* an id.
C8_IdsIncreasing ==
    /\ \A i, j \in 1..Len(created) :
         i < j => created[i].id < created[j].id
    /\ \A i, j \in 1..Len(notification_history) :
         i # j => notification_history[i].id # notification_history[j].id

\* C9: a notify call with a level the configuration disables returns false,
\* leaves the history and the saved history as they were and attempts no
\* channel.
C9_DisabledLevelRejected ==
    [][ (/\ notify_calls' = notify_calls + 1
         /\ last_notify'.level \in DOMAIN notification_config.notification_levels
         /\ ~notification_config.notification_levels[last_notify'.level])
        => (/\ last_notify'.result = FALSE
            /\ notification_history' = notification_history
            /\ saved_history' = saved_history
            /\ created' = created
            /\ last_notify'.attempts = <<>>) ]_vars

\* A call at the disabled level 'info' that was rejected, made after an
\* accepted call has put an entry in the history.
C9_Witness_Rejected ==
    /\ notify_calls > 1
    /\ last_notify.level = "info"
    /\ ~notification_config.notification_levels["info"]
    /\ ~last_notify.accepted
    /\ ~last_notify.result
    /\ Len(notification_history) > 0

(***************************************************************************)
(* Claims about the parser and its hand-over to the classifier (SpecParse).*)
(***************************************************************************)
ParseCalled == parse_result # NoParse

InUnitRange(confidence) == confidence >= 0 /\ confidence <= 100

\* C11: every confidence classify returns lies between 0.0 and 1.0, the
\* heuristic category confidence carried over from the parser included.
C11_ConfidenceRange ==
    ClassifyCalled =>
      /\ InUnitRange(classify_result.ml_category_confidence)
      /\ InUnitRange(classify_result.ml_priority_confidence)
      /\ InUnitRange(classify_result.department_confidence)

PunctuationChars == {".", ",", ";", ":", "-", "/", "!", "?"}

NoDuplicates(list) ==
    \A i, j \in 1..Len(list) : i # j => list[i] # list[j]

NoTrailingPunctuation(list) ==
    \A i \in 1..Len(list) :
        list[i] # <<>> => list[i][Len(list[i])] \notin PunctuationChars

\* C12: no entity list of _extract_entities or of the attachment extractors
\* holds a value twice or a value that ends in a punctuation character.
C12_EntityListsClean ==
    ParseCalled =>
      /\ \A k \in DOMAIN parse_result.entities :
           /\ NoDuplicates(parse_result.entities[k])
           /\ NoTrailingPunctuation(parse_result.entities[k])
      /\ NoDuplicates(parse_result.pdf_contract_numbers)
      /\ NoTrailingPunctuation(parse_result.pdf_contract_numbers)

NormalBase ==
    parse_result.category \notin {"cancelamento", "reclamacao", "pagamento"}

\* C13 as stated: on a 'normal' base, exactly one urgency keyword in the
\* text gives priority 'alta'.
C13_SingleKeywordHigh ==
    (ParseCalled /\ NormalBase /\ Cardinality(parse_input.urgency) = 1)
    => parse_result.priority = "alta"

\* C13, amended: on a 'normal' base, exactly one urgency keyword in the
\* text, and that keyword not the literal 'urgente', gives priority 'alta';
\* the literal 'urgente' gives 'urgente' whatever the base.
C13_SingleKeywordHighUnlessLiteral ==
    /\ (ParseCalled /\ NormalBase /\ Cardinality(parse_input.urgency) = 1
          /\ "urgente" \notin parse_input.urgency)
       => parse_result.priority = "alta"
    /\ (ParseCalled /\ "urgente" \in parse_input.urgency)
       => parse_result.priority = "urgente"

\* A text of category 'renovacao' whose only urgency keyword is 'hoje'.
C13_Witness_HojeOnNormalBase ==
    /\ ParseCalled
    /\ parse_result.category = "renovacao"
    /\ parse_input.urgency = {"hoje"}
    /\ parse_result.priority = "alta"


(***************************************************************************)
(* Claims about the reader and the attachment conversion                   *)
(***************************************************************************)
\* What the body and the attachments a converter claims contribute.
RECURSIVE ClaimedOnly(_)
ClaimedOnly(attachments) ==
    IF attachments = <<>> THEN <<>>
    ELSE IF CanProcess(Head(attachments).content_type, Head(attachments).filename)
    THEN <<Head(attachments)>> \o ClaimedOnly(Tail(attachments))
    ELSE ClaimedOnly(Tail(attachments))

WithoutUnsupported(email) ==
    _process_email([id |-> email.id, body |-> email.body,
                    attachments |-> ClaimedOnly(email.attachments)], temp_files)

\* C14: for an attachment that no converter claims, the result of
\* process_attachment carries an error marker, the original filename and the
\* original content type, and the parent message gets from it no entity and
\* no text: its extracted_info and the texts _extract_all_text joins are
\* those of the message without that attachment.
C14_UnsupportedContributesNothing ==
    \A i \in 1..Len(last_read.emails) :
        LET email == last_read.emails[i]
        IN \A k \in 1..Len(email.attachments) :
              ~CanProcess(email.attachments[k].content_type,
                          email.attachments[k].filename)
              => /\ email.processed_attachments[k].error
                 /\ email.processed_attachments[k].filename
                       = email.attachments[k].filename
                 /\ email.processed_attachments[k].content_type
                       = email.attachments[k].content_type
                 /\ email.extracted_info
                       = WithoutUnsupported(email).extracted_info
                 /\ _extract_all_text(email)
                       = _extract_all_text(WithoutUnsupported(email))

\* C17: once a read_emails call has returned, no temporary attachment file
\* created while fetching its messages still exists.
C17_TempFilesReleased ==
    read_calls > 0 => temp_files = {}

\* C19: get_unread_emails(limit) returns at most limit messages for every
\* limit >= 0, and no message id twice.
C19_UnreadLimit ==
    last_read.connected
    => /\ Len(last_read.listed) <= last_read.limit
       /\ \A i, j \in 1..Len(last_read.listed) :
             last_read.listed[i] = last_read.listed[j] => i = j

(***************************************************************************)
(* Claims about the poll cycle                                             *)
(***************************************************************************)
\* The worker is in the sleep that ends a cycle.
CycleEnded(w) == w.pc \in {"sleep", "sleep60"}

\* C15: a cycle in which the connection was established has closed it with
\* exactly one logout when the cycle ends, on every exit path.
C15_LogoutOncePerCycle ==
    \A t \in Threads :
        CycleEnded(workers[t]) /\ workers[t].connect = "success"
        => workers[t].logouts = 1 /\ ~workers[t].conn

\* C16: a cycle whose connection failed, reported or raised, has processed
\* no message and ends in the 60-second sleep; a cycle that went through
\* its batch without an exception ends in the check_interval sleep; after
\* either sleep the worker is back at the loop test, and from there starts a
\* new cycle when running is true.
C16_FailureSleepState ==
    \A t \in Threads :
        CycleEnded(workers[t])
        => /\ workers[t].connect \in {"failure", "raises"}
              => workers[t].pc = "sleep60" /\ workers[t].attempted = <<>>
           /\ workers[t].connect = "success" /\ ~workers[t].raised
              => /\ workers[t].pc = "sleep"
                 /\ workers[t].idx > Len(workers[t].batch)

C16_RetryStep ==
    \A t \in Threads :
        /\ CycleEnded(workers[t]) /\ workers'[t] # workers[t]
              => workers'[t].pc = "check"
        /\ workers[t].pc = "check" /\ workers'[t] # workers[t] /\ running
              => workers'[t].pc = "connect"

C16_CycleFailureSleeps == []C16_FailureSleepState /\ [][C16_RetryStep]_vars

(***************************************************************************)
(* Claims about the login lockout                                          *)
(***************************************************************************)
ContainsBloqueado(message) == message \in {Msg_Locked, Msg_LockedNow}

Blocked(call) ==
    /\ ~call.success
    /\ ContainsBloqueado(call.message)
    /\ ~call.session_token

\* Calls i-n+1..i of the log exist and all failed.
FailedRun(i, n) ==
    /\ i - n + 1 >= 1
    /\ \A k \in (i - n + 1)..i : ~auth_log[k].success

\* A run of n failed calls that begins with the first call made for the
\* user or right after a successful call.
FreshFailedRun(i, n) ==
    /\ FailedRun(i, n)
    /\ i - n = 0 \/ auth_log[i - n].success

\* C20, as stated: after max_login_attempts consecutive failed calls, every
\* call made before lockout_duration has elapsed since them fails with a
\* message containing 'bloqueado' and issues no session token, whatever the
\* password.
C20_LockoutAfterFailures ==
    \A i, j \in 1..Len(auth_log) :
        /\ i < j
        /\ FailedRun(i, security_config.max_login_attempts)
        /\ auth_log[j].time < auth_log[i].time + security_config.lockout_duration
        => Blocked(auth_log[j])

\* C20, amended: after max_login_attempts consecutive failed calls that
\* follow the creation of the user or a successful call, every call made
\* before lockout_duration has elapsed since the last of them fails with a
\* message containing 'bloqueado' and issues no session token, whatever the
\* password.
C20_LockoutAfterFreshFailures ==
    \A i, j \in 1..Len(auth_log) :
        /\ i < j
        /\ FreshFailedRun(i, security_config.max_login_attempts)
        /\ auth_log[j].time < auth_log[i].time + security_config.lockout_duration
        => Blocked(auth_log[j])

\* A call with the correct password, made later than the failures and
\* before the lock ends, is rejected.
C20_Witness_CorrectPasswordBlocked ==
    \E i, j \in 1..Len(auth_log) :
        /\ i < j
        /\ security_config.max_login_attempts = MaxAttemptsCfg
        /\ FreshFailedRun(i, security_config.max_login_attempts)
        /\ auth_log[j].time > auth_log[i].time
        /\ auth_log[j].time < auth_log[i].time + security_config.lockout_duration
        /\ auth_log[j].password_ok
        /\ Blocked(auth_log[j])

(***************************************************************************)
(* Claims about the stages and their input                                 *)
(***************************************************************************)
\* C18: every stage call leaves the dict passed to it as it was, no key
\* added, removed or reassigned, and returns a value that is not that dict,
\* on the error path as on the others.
C18_StagesLeaveInput ==
    \A i \in 1..Len(stage_log) :
        /\ stage_log[i].after = stage_log[i].before
        /\ ~stage_log[i].same_object

(***************************************************************************)
(* Claims about the name stage of the matcher (SpecMatch).                 *)
(***************************************************************************)
\* The greatest similarity of the message's school names against the
\* school name of contract i.
BestSimilarity(i) ==
    LET sims == {_calculate_name_similarity(match_email.school_names[k],
                                            contracts[i].school_name) :
                    k \in 1..Len(match_email.school_names)}
    IN CHOOSE x \in sims : \A y \in sims : y <= x

\* C22: when the name stage gives the result, it holds every contract whose
\* best similarity over the message's school names is at least 0.8 and no
\* other, each once, with that best similarity as its match_score, sorted
\* by descending score.
C22_BestNameScore ==
    match_result.match_method = "school_name"
    => /\ Len(match_result.matched_contracts) = Cardinality(NameCandidates)
       /\ Range(match_result.matched_contracts)
             = {WithScore(contracts[i], BestSimilarity(i)) : i \in NameCandidates}
       /\ \A j \in 1..(Len(match_result.matched_contracts) - 1) :
             match_result.matched_contracts[j].match_score
                >= match_result.matched_contracts[j + 1].match_score

(***************************************************************************)
(* Claims about the contract database (SpecDb).                            *)
(***************************************************************************)
\* C21: after update_contract has succeeded on an existing contract, every
\* column supplied holds the supplied value and every column not supplied
\* holds the value that was stored; a search on the stored school name
\* still finds the contract when the school name was not supplied.
C21_PartialUpdate ==
    last_update.success
    => LET number == last_update.contract_data["contract_number"]
           row == db_contracts[number]
       IN /\ \A column \in UpdatedColumns :
                row[column] = IF column \in DOMAIN last_update.contract_data
                              THEN last_update.contract_data[column]
                              ELSE last_update.stored[column]
          /\ "school_name" \notin DOMAIN last_update.contract_data
                => number \in search_contracts(db_contracts,
                                               last_update.stored["school_name"])

(***************************************************************************)
(* More claims about the router (SpecRoute).                               *)
(***************************************************************************)
\* C23: a route_email call that returns routing_status 'error' has sent no
\* auto-reply to the sender of the message.
C23_NoReplyOnError ==
    (RouteCalled /\ last_route.routed.routing_status = "error")
    => \A i \in RepliesOf(last_route.sends) : ~last_route.sends[i].ok

(***************************************************************************)
(* More claims about the notifier (SpecNotify, SpecQuery).                 *)
(***************************************************************************)
Channels == {"email", "sms", "dashboard"}

AttemptsOf(channel) ==
    {i \in 1..Len(last_notify.attempts) :
        last_notify.attempts[i].channel = channel}

\* The append and the save come first, in this order, and every enabled
\* channel is attempted once, the others never.
SaveBeforeChannels ==
    /\ Len(last_notify.steps) >= 2
    /\ last_notify.steps[1] = "append"
    /\ last_notify.steps[2] = "save"
    /\ \A i \in 3..Len(last_notify.steps) : last_notify.steps[i] \in Channels
    /\ \A channel \in Channels :
          Cardinality(AttemptsOf(channel))
             = IF notification_config.channels[channel] THEN 1 ELSE 0

NewestRecorded ==
    /\ notification_history # <<>>
    /\ created # <<>>
    /\ notification_history[Len(notification_history)] = created[Len(created)]

C29_FalseMeansUnrecorded ==
    [][ (notify_calls' = notify_calls + 1 /\ ~last_notify'.result)
        => (/\ notification_history' = notification_history
            /\ saved_history' = saved_history) ]_vars

\* C29, amended: a notify call that returns false either was rejected for
\* its disabled level, and then left the history as it was, or was accepted,
\* and then a channel failed and the notification is the newest entry of the
\* history.
C29_FalseRejectedOrChannelFailed ==
    [][ (notify_calls' = notify_calls + 1 /\ ~last_notify'.result)
        => IF last_notify'.accepted
           THEN /\ \E i \in 1..Len(last_notify'.attempts) :
                      ~last_notify'.attempts[i].ok
                /\ Len(created') = Len(created) + 1
                /\ notification_history' # <<>>
                /\ notification_history'[Len(notification_history')]
                      = created'[Len(created')]
                /\ last_notify'.saved => saved_history' = notification_history'
           ELSE /\ notification_history' = notification_history
                /\ saved_history' = saved_history ]_vars

\* An accepted call that returned false, made when the history was already
\* at its maximum, and that is recorded.
C29_Witness_FalseButRecorded ==
    /\ last_notify.accepted
    /\ ~last_notify.result
    /\ notification_config.max_history > 0
    /\ Len(created) > notification_config.max_history
    /\ notification_history # <<>>
    /\ notification_history[Len(notification_history)].level = last_notify.level

\* C27: get_notifications leaves notification_history as it was, so that
\* the history still holds the most recently created notifications, oldest
\* first, whatever queries were made between the notify calls.
C27_QueryLeavesHistory ==
    /\ [][ last_query'.calls = last_query.calls + 1
           => notification_history' = notification_history ]_vars
    /\ [](notification_config.max_history > 0
            => IsSuffix(notification_history, created))

(***************************************************************************)
(* Marking as read (SpecRead).  read_emails is the only caller of          *)
(* mark_as_read, and it returns before any routing is attempted.           *)
(***************************************************************************)
\* C24: a message for which no routing attempt has returned 'success' stays
\* unread on the server: the messages read_emails has listed and handed
\* over, none of them routed yet, are still unseen when it returns.
C24_UnroutedStaysUnread ==
    last_read.connected
    => \A i \in 1..Len(mailbox) :
          mailbox[i].id \in Range(last_read.listed) => ~mailbox[i].seen

(***************************************************************************)
(* Failing predictions (SpecClassify).                                     *)
(***************************************************************************)
Axes == {"category", "priority", "department"}

RaisingAxes == {a \in Axes : models[a].kind = "raises"}

\* C25: classify returns a message whatever the models do, and when the
\* prediction of some axis raises, the message has the parser's category
\* and priority as ml_category and ml_priority, and as department the entry
\* of the category-to-department table for the parser's category, 'triagem'
\* when the table has none.
C25_FailureDegrades ==
    (classify_result # NoClassifyCall /\ RaisingAxes # {})
    => /\ classify_result.ml_category = classify_email.category
       /\ classify_result.ml_priority = classify_email.priority
       /\ classify_result.department
             = CategoryToDepartment(classify_email.category)
       /\ classify_email.category = "desconhecido"
             => classify_result.department = "triagem"

\* A call in which the priority prediction raised while the category model
\* predicted another category than the parser's: the parser's is returned.
C25_Witness_HeuristicAfterRaise ==
    /\ classify_result # NoClassifyCall
    /\ models.priority.kind = "raises"
    /\ models.category.kind = "predicts"
    /\ models.category.label # classify_email.category
    /\ classify_result.ml_category = classify_email.category
    /\ classify_result.department = CategoryToDepartment(classify_email.category)
    /\ classify_result.classification_error

\* The models with those whose prediction raises taken as not loaded.
WithoutRaising ==
    [a \in Axes |-> IF models[a].kind = "raises" THEN Absent ELSE models[a]]

\* C30: a prediction that raises on one axis affects that axis only: on
\* every axis whose model predicts, the result is what classify returns for
\* that axis when the failing model is not there at all (the model's label
\* and probability, subject to the entity rules).
C30_AxesIndependent ==
    (classify_result # NoClassifyCall /\ RaisingAxes # {})
    => LET expected == classify(WithoutRaising, classify_email)
       IN /\ models.category.kind = "predicts"
               => /\ classify_result.ml_category = expected.ml_category
                  /\ classify_result.ml_category_confidence
                        = expected.ml_category_confidence
          /\ models.priority.kind = "predicts"
               => /\ classify_result.ml_priority = expected.ml_priority
                  /\ classify_result.ml_priority_confidence
                        = expected.ml_priority_confidence
          /\ models.department.kind = "predicts"
               => /\ classify_result.department = expected.department
                  /\ classify_result.department_confidence
                        = expected.department_confidence

(***************************************************************************)
(* The parser's entities as the matcher reads them (SpecCompose).          *)
(***************************************************************************)
\* The contract numbers parse_email extracted, under the key it writes.
ParsedNumbers ==
    Range(EntityStrings(parse_result.entities, "contract_number"))

\* C28: when parse_email extracted a contract number equal to the stored
\* contract_number of a contract, match_contract on the parsed message
\* returns that contract with match_score 1.0 and match_method
\* 'contract_number'.
C28_ParsedNumberMatches ==
    (parse_result # NoParse /\ match_result # NoMatchCall)
    => \A i \in 1..Len(contracts) :
          (contracts[i].contract_number # ""
             /\ contracts[i].contract_number \in ParsedNumbers)
          => /\ match_result.match_method = "contract_number"
             /\ \E j \in 1..Len(match_result.matched_contracts) :
                   /\ match_result.matched_contracts[j].contract_number
                         = contracts[i].contract_number
                   /\ match_result.matched_contracts[j].match_score = Score_1_0

====
